---- MODULE Spec2Model ----
(***************************************************************************)
(* State-machine model of the WebGIS analyzer: the five data chains of     *)
(* utils/apiService.js (fetchElevationData, fetchWeatherData,              *)
(* fetchClimateData, fetchPopulationEstimate, fetchLandUseData), their     *)
(* estimators, and the two places that run them: App.handlePolygonDrawn    *)
(* and the DataDisplay effect.                                             *)
(*                                                                         *)
(* Numbers are fixed point.  Coordinates are integers in hundredths of a   *)
(* degree, areas are integers in hundredths of a km2 (the two decimals of  *)
(* toFixed(2)), temperatures and densities are integers in tenths.         *)
(* Math.random() is k / RandDen for a numerator k in 0..RandDen-1.         *)
(* The sums of calculatePolygonArea and calculatePolygonPerimeter are      *)
(* floating point: every addition is rounded to MantissaBits significant   *)
(* bits, to nearest, ties to even.                                         *)
(***************************************************************************)
EXTENDS Integers, Sequences, FiniteSets, TLC

----------------------------------------------------------------------------
(* Bounds of the model *)

\* resolution of Math.random(): the draws are 0/RandDen .. (RandDen-1)/RandDen
RandDen == 5

\* number of direct calls of a chain made in one behaviour of Spec
MaxCalls == 2

\* the number of calls two callers make between them
MaxPairCalls == 3

\* number of polygons drawn in one behaviour of AppSpec
MaxDraws == 1

\* number of polygons drawn in one behaviour of OverlapSpec
MaxOverlap == 2

\* number of renders of App and of polygons drawn in one behaviour of MapSpec
MaxRenders == 8

MaxCreated == 3

\* the polygons DataDisplay is given one after another
MaxPolygons == 2

\* the greatest population generateAgeDistribution is called with on its own
MaxPopulation == 40

\* number of data-type selections made in DataDisplay in one behaviour of AppSpec
MaxSelects == 1

\* number of elements of one kind in an answer of Overpass in LandUseSpec
MaxCount == 3

\* significant bits of a number: the sums of the geometry functions are
\* rounded to this many bits after every addition
MantissaBits == 24

----------------------------------------------------------------------------
(* State *)

VARIABLES
    keys,     \* the credentials of the build
    task,     \* the calls of the chains: task id -> call
    ncalls,   \* the number of direct calls made so far
    app,      \* the state of the App component
    display,  \* the state of the DataDisplay component
    calc,     \* the calls of the geometry functions: arguments and results
    map       \* the Leaflet map of DrawControl: control, handlers, draws

vars == << keys, task, ncalls, app, display, calc, map >>

----------------------------------------------------------------------------
(* JavaScript numbers that are not finite *)

NaN == 0 - 1000000000

Infinity == 0 - NaN

\* the value of a property that the object read does not have
Undefined == NaN - 1

Abs(x) == IF x < 0 THEN 0 - x ELSE x

Max(a, b) == IF a >= b THEN a ELSE b

Min(a, b) == IF a <= b THEN a ELSE b

\* Math.round(a / b) for b > 0: the nearest integer, halves rounded up
MathRound(a, b) == (2 * a + b) \div (2 * b)

\* Math.floor(a / b) for b > 0
MathFloor(a, b) == a \div b

RECURSIVE Ulp(_)
\* the distance between two neighbouring numbers at the magnitude x >= 0
Ulp(x) == IF x < 2 ^ MantissaBits THEN 1 ELSE 2 * Ulp(x \div 2)

\* the number nearest to x, a tie going to the even neighbour: the result
\* of every arithmetic operation is rounded like this
Fl(x) ==
    LET Nearest(v) ==
            LET a == Abs(v)
                q == Ulp(a)
                k == a \div q
                r == a % q
                m == IF 2 * r > q \/ (2 * r = q /\ k % 2 = 1)
                     THEN (k + 1) * q
                     ELSE k * q
            IN  IF v < 0 THEN 0 - m ELSE m
    IN  CHOOSE m \in {Nearest(v) : v \in {x}} : TRUE

\* the i-th Math.random() numerator of a call whose generator state is seed:
\* the first two draws range over all pairs, later draws repeat them
Random(seed, i) ==
    IF i % 2 = 1 THEN seed % RandDen ELSE (seed \div RandDen) % RandDen

\* the states of the generator a call is made in: each of the two draws is
\* the least or the greatest Math.random() can return
Seeds == {a + RandDen * b : a, b \in {0, RandDen - 1}}

----------------------------------------------------------------------------
(* Rings: polygonCoords, an array of [lat, lng] points, or no array at all *)

Ring(points) == [present |-> TRUE, pts |-> points]

MissingRing == [present |-> FALSE, pts |-> << >>]

EmptyRing == Ring(<< >>)

\* two points only
ShortRing == Ring(<< <<4600, 200>>, <<4600, 210>> >>)

\* a triangle of about 43 km2 in central France
SmallLandRing == Ring(<< <<4600, 200>>, <<4600, 210>>, <<4610, 200>> >>)

\* a square of about 343 km2 in central France
LargeLandRing ==
    Ring(<< <<4600, 200>>, <<4600, 220>>, <<4620, 220>>, <<4620, 200>> >>)

\* a triangle of about 62 km2 in the mid Atlantic
SmallOceanRing == Ring(<< <<0, -3000>>, <<0, -2990>>, <<10, -3000>> >>)

\* the triangle in central France with its first point repeated at the end
ClosedLandRing ==
    Ring(<< <<4600, 200>>, <<4600, 210>>, <<4610, 200>>, <<4600, 200>> >>)

\* three points of which the last repeats the first
ThereAndBackRing ==
    Ring(<< <<4600, 200>>, <<4600, 210>>, <<4600, 200>> >>)

\* the rings a caller of the exported functions may pass
ApiRings ==
    {MissingRing, EmptyRing, ShortRing, SmallLandRing, LargeLandRing,
     SmallOceanRing}

\* the rings the draw control of Map.jsx hands to onPolygonDrawn
DrawnRings == {SmallLandRing, LargeLandRing, SmallOceanRing}

\* polygonCoords.length
Len0(ring) == Len(ring.pts)

\* a triangle with legs of a tenth of a degree, its right angle at (lat, lng)
TriangleAt(lat, lng) ==
    Ring(<< <<lat, lng>>, <<lat, lng + 10>>, <<lat + 10, lng>> >>)

\* a triangle west of France: the mean of its longitudes lies west of
\* -10 degrees, the middle of its longitudes east of it
CoastRing == Ring(<< <<4600, -1020>>, <<4610, -1020>>, <<4600, -970>> >>)

\* Math.sin of a latitude, times 10^5, at the latitudes of the rings of the
\* model
SinE5(lat) ==
    CASE lat = 0 -> 0
      [] lat = 10 -> 175
      [] lat = 4600 -> 71934
      [] lat = 4610 -> 72055
      [] lat = 4620 -> 72176
      [] lat = 500 -> 8716
      [] lat = 510 -> 8889
      [] lat = 3000 -> 50000
      [] lat = 3010 -> 50151
      [] lat = 4000 -> 64279
      [] lat = 4010 -> 64412
      [] lat = 6500 -> 90631
      [] lat = 6510 -> 90704
      [] lat = 7500 -> 96593
      [] lat = 7510 -> 96638
      [] lat = 0 - 2000 -> 0 - 34202
      [] lat = 0 - 1990 -> 0 - 34038
      [] lat = 0 - 7000 -> 0 - 93969
      [] lat = 0 - 6990 -> 0 - 93909

RECURSIVE SumCoord(_, _)
\* points.reduce((sum, point) => sum + point[k], 0)
SumCoord(points, k) ==
    IF points = << >> THEN 0
    ELSE points[1][k] + SumCoord(Tail(points), k)

\* a quotient num / den in hundredths of a degree; den = 0 is NaN (0 / 0)
Quot(num, den) == [num |-> num, den |-> den]

\* q > deg and q < deg for a number of whole degrees; false for NaN
Gt(q, deg) == q.den > 0 /\ q.num > deg * 100 * q.den

Lt(q, deg) == q.den > 0 /\ q.num < deg * 100 * q.den

\* Math.abs(q) > deg
AbsGt(q, deg) == q.den > 0 /\ Abs(q.num) > deg * 100 * q.den

\* polygonCoords.reduce(...) / polygonCoords.length for coordinate k
centerOf(ring, k) == Quot(SumCoord(ring.pts, k), Len(ring.pts))

----------------------------------------------------------------------------
(* Geometry helpers of apiService.js *)

RECURSIVE MaxCoord(_, _)
MaxCoord(points, k) ==
    IF Len(points) = 1 THEN points[1][k]
    ELSE Max(points[1][k], MaxCoord(Tail(points), k))

RECURSIVE MinCoord(_, _)
MinCoord(points, k) ==
    IF Len(points) = 1 THEN points[1][k]
    ELSE Min(points[1][k], MinCoord(Tail(points), k))

\* calculateBoundingBox with the four limits starting at 0 instead of at the
\* first point
calculateBoundingBoxFromZero(ring) ==
    IF ~ring.present \/ Len(ring.pts) = 0
    THEN [north |-> 0, south |-> 0, east |-> 0, west |-> 0]
    ELSE [north |-> Max(0, MaxCoord(ring.pts, 1)),
          south |-> Min(0, MinCoord(ring.pts, 1)),
          east |-> Max(0, MaxCoord(ring.pts, 2)),
          west |-> Min(0, MinCoord(ring.pts, 2))]

calculateBoundingBox(ring) ==
    IF ~ring.present \/ Len(ring.pts) = 0
    THEN [north |-> 0, south |-> 0, east |-> 0, west |-> 0]
    ELSE [north |-> MaxCoord(ring.pts, 1), south |-> MinCoord(ring.pts, 1),
          east |-> MaxCoord(ring.pts, 2), west |-> MinCoord(ring.pts, 2)]

\* earthRadius^2 / 2 * (pi / 18000) / 10^5, in hundredths of a km2, times 1000:
\* the factor that turns the edge sum (longitude in hundredths of a degree
\* times SinE5) into an area in hundredths of a km2
AreaScale == 3542

\* the edge sum of the Gauss formula: lon1 * sin(lat2) - lon2 * sin(lat1)
EdgeSum(points) ==
    LET n == Len(points)
        term[i \in 1 .. n] ==
            LET j == (i % n) + 1
            IN  Fl(Fl(points[i][2] * SinE5(points[j][1]))
                       - Fl(points[j][2] * SinE5(points[i][1])))
        acc[i \in 0 .. n] == IF i = 0 THEN 0 ELSE Fl(acc[i - 1] + term[i])
    IN  acc[n]

\* area in hundredths of a km2
calculatePolygonAreaInKm2(ring) ==
    IF ~ring.present \/ Len(ring.pts) < 3 THEN 0
    ELSE (Abs(EdgeSum(ring.pts)) * AreaScale) \div 1000

\* the threshold of fetchLandUseData, in km2
LargeAreaKm2 == 100

\* isLikelyOceanLocation counting both polar caps as land: Math.abs(lat) > 60
\* in the place of lat < -60
isLikelyOceanLocationBothCaps(lat, lng) ==
    LET in(s, n, w, e) == Gt(lat, s) /\ Lt(lat, n) /\ Gt(lng, w) /\ Lt(lng, e)
    IN  ~ \/ in(35, 70, -10, 40) \/ in(15, 70, -170, -50)
          \/ in(-60, 15, -80, -35) \/ in(-40, 35, -20, 55)
          \/ in(0, 75, 40, 180) \/ in(-45, -10, 110, 155)
          \/ AbsGt(lat, 60)

\* isLikelyOceanLocation without the test of the box of Europe
isLikelyOceanLocationNoEurope(lat, lng) ==
    LET in(s, n, w, e) == Gt(lat, s) /\ Lt(lat, n) /\ Gt(lng, w) /\ Lt(lng, e)
    IN  ~ \/ in(15, 70, -170, -50)
          \/ in(-60, 15, -80, -35) \/ in(-40, 35, -20, 55)
          \/ in(0, 75, 40, 180) \/ in(-45, -10, 110, 155)
          \/ Lt(lat, -60)

\* isLikelyOceanLocation without the test of the box of Asia
isLikelyOceanLocationNoAsia(lat, lng) ==
    LET in(s, n, w, e) == Gt(lat, s) /\ Lt(lat, n) /\ Gt(lng, w) /\ Lt(lng, e)
    IN  ~ \/ in(35, 70, -10, 40) \/ in(15, 70, -170, -50)
          \/ in(-60, 15, -80, -35) \/ in(-40, 35, -20, 55)
          \/ in(-45, -10, 110, 155)
          \/ Lt(lat, -60)

isLikelyOceanLocation(lat, lng) ==
    IF Gt(lat, 35) /\ Lt(lat, 70) /\ Gt(lng, -10) /\ Lt(lng, 40) THEN FALSE
    ELSE IF Gt(lat, 15) /\ Lt(lat, 70) /\ Gt(lng, -170) /\ Lt(lng, -50)
    THEN FALSE
    ELSE IF Gt(lat, -60) /\ Lt(lat, 15) /\ Gt(lng, -80) /\ Lt(lng, -35)
    THEN FALSE
    ELSE IF Gt(lat, -40) /\ Lt(lat, 35) /\ Gt(lng, -20) /\ Lt(lng, 55)
    THEN FALSE
    ELSE IF Gt(lat, 0) /\ Lt(lat, 75) /\ Gt(lng, 40) /\ Lt(lng, 180)
    THEN FALSE
    ELSE IF Gt(lat, -45) /\ Lt(lat, -10) /\ Gt(lng, 110) /\ Lt(lng, 155)
    THEN FALSE
    ELSE IF Lt(lat, -60) THEN FALSE
    ELSE TRUE

----------------------------------------------------------------------------
(* Estimators of apiService.js.  seed is the state of Math.random() at the  *)
(* call; the draws are taken in the order the code evaluates them.          *)

\* polygonCoords.reduce of a ring that is no array throws a TypeError
reduceThrows(ring) == ~ring.present

\* estimatePopulationFromLocation with the population computed before the
\* density is set to 0 for the ocean
estimatePopulationFromLocationBeforeOcean(ring, seed) ==
    LET boundingBox == calculateBoundingBox(ring)
        area == calculatePolygonAreaInKm2(ring)
        centerLat == Quot(boundingBox.north + boundingBox.south, 2)
        centerLng == Quot(boundingBox.east + boundingBox.west, 2)
        k == Random(seed, 1)
        \* densityEstimate, in tenths, times RandDen
        banded ==
            IF Gt(centerLat, 60) \/ Lt(centerLat, -60)
            THEN 20 * k + 1 * RandDen
            ELSE IF Gt(centerLat, 45) \/ Lt(centerLat, -45)
            THEN 400 * k + 50 * RandDen
            ELSE IF Gt(centerLat, 23) \/ Lt(centerLat, -23)
            THEN 2000 * k + 500 * RandDen
            ELSE 1500 * k + 300 * RandDen
        densityEstimate ==
            IF isLikelyOceanLocation(centerLat, centerLng) THEN 0 ELSE banded
    IN  [population |-> MathRound(area * banded, 1000 * RandDen),
         density |-> MathRound(densityEstimate, 10 * RandDen),
         area |-> area,
         note |-> "Estimation basee sur la localisation geographique"]

estimatePopulationFromLocation(ring, seed) ==
    LET boundingBox == calculateBoundingBox(ring)
        area == calculatePolygonAreaInKm2(ring)
        centerLat == Quot(boundingBox.north + boundingBox.south, 2)
        centerLng == Quot(boundingBox.east + boundingBox.west, 2)
        k == Random(seed, 1)
        \* densityEstimate, in tenths, times RandDen
        banded ==
            IF Gt(centerLat, 60) \/ Lt(centerLat, -60)
            THEN 20 * k + 1 * RandDen
            ELSE IF Gt(centerLat, 45) \/ Lt(centerLat, -45)
            THEN 400 * k + 50 * RandDen
            ELSE IF Gt(centerLat, 23) \/ Lt(centerLat, -23)
            THEN 2000 * k + 500 * RandDen
            ELSE 1500 * k + 300 * RandDen
        densityEstimate ==
            IF isLikelyOceanLocation(centerLat, centerLng) THEN 0 ELSE banded
    IN  [population |-> MathRound(area * densityEstimate, 1000 * RandDen),
         density |-> MathRound(densityEstimate, 10 * RandDen),
         area |-> area,
         note |-> "Estimation basee sur la localisation geographique"]

\* estimateLandUseFromLocation with the test of the polar band ahead of the
\* test of the ocean
estimateLandUseFromLocationBandFirst(ring, seed) ==
    LET centerLat == centerOf(ring, 1)
        centerLng == centerOf(ring, 2)
        r(i) == Random(seed, i)
    IN  IF isLikelyOceanLocation(centerLat, centerLng)
            /\ ~AbsGt(centerLat, 60)
        THEN [water |-> 98, urban |-> 0, agriculture |-> 0, forest |-> 0,
              other |-> 2, dataSource |-> "Estimation (ocean)"]
        ELSE IF AbsGt(centerLat, 60)
        THEN [water |-> MathFloor(r(1) * 15, RandDen),
              urban |-> MathFloor(r(2) * 5, RandDen),
              agriculture |-> MathFloor(r(3) * 10, RandDen),
              forest |-> MathFloor(r(4) * 30, RandDen) + 40,
              other |-> MathFloor(r(5) * 30, RandDen) + 10,
              dataSource |-> "Estimation (zone polaire)"]
        ELSE IF AbsGt(centerLat, 45)
        THEN [water |-> MathFloor(r(1) * 15, RandDen),
              urban |-> MathFloor(r(2) * 15, RandDen) + 5,
              agriculture |-> MathFloor(r(3) * 25, RandDen) + 15,
              forest |-> MathFloor(r(4) * 30, RandDen) + 20,
              other |-> MathFloor(r(5) * 15, RandDen) + 5,
              dataSource |-> "Estimation (zone subpolaire)"]
        ELSE IF AbsGt(centerLat, 23)
        THEN [water |-> MathFloor(r(1) * 10, RandDen),
              urban |-> MathFloor(r(2) * 30, RandDen) + 15,
              agriculture |-> MathFloor(r(3) * 30, RandDen) + 20,
              forest |-> MathFloor(r(4) * 20, RandDen) + 10,
              other |-> MathFloor(r(5) * 15, RandDen),
              dataSource |-> "Estimation (zone temperee)"]
        ELSE [water |-> MathFloor(r(1) * 15, RandDen),
              urban |-> MathFloor(r(2) * 20, RandDen) + 5,
              agriculture |-> MathFloor(r(3) * 25, RandDen) + 15,
              forest |-> MathFloor(r(4) * 35, RandDen) + 20,
              other |-> MathFloor(r(5) * 20, RandDen),
              dataSource |-> "Estimation (zone tropicale)"]

estimateLandUseFromLocation(ring, seed) ==
    LET centerLat == centerOf(ring, 1)
        centerLng == centerOf(ring, 2)
        r(i) == Random(seed, i)
    IN  IF isLikelyOceanLocation(centerLat, centerLng)
        THEN [water |-> 98, urban |-> 0, agriculture |-> 0, forest |-> 0,
              other |-> 2, dataSource |-> "Estimation (ocean)"]
        ELSE IF AbsGt(centerLat, 60)
        THEN [water |-> MathFloor(r(1) * 15, RandDen),
              urban |-> MathFloor(r(2) * 5, RandDen),
              agriculture |-> MathFloor(r(3) * 10, RandDen),
              forest |-> MathFloor(r(4) * 30, RandDen) + 40,
              other |-> MathFloor(r(5) * 30, RandDen) + 10,
              dataSource |-> "Estimation (zone polaire)"]
        ELSE IF AbsGt(centerLat, 45)
        THEN [water |-> MathFloor(r(1) * 15, RandDen),
              urban |-> MathFloor(r(2) * 15, RandDen) + 5,
              agriculture |-> MathFloor(r(3) * 25, RandDen) + 15,
              forest |-> MathFloor(r(4) * 30, RandDen) + 20,
              other |-> MathFloor(r(5) * 15, RandDen) + 5,
              dataSource |-> "Estimation (zone subpolaire)"]
        ELSE IF AbsGt(centerLat, 23)
        THEN [water |-> MathFloor(r(1) * 10, RandDen),
              urban |-> MathFloor(r(2) * 30, RandDen) + 15,
              agriculture |-> MathFloor(r(3) * 30, RandDen) + 20,
              forest |-> MathFloor(r(4) * 20, RandDen) + 10,
              other |-> MathFloor(r(5) * 15, RandDen),
              dataSource |-> "Estimation (zone temperee)"]
        ELSE [water |-> MathFloor(r(1) * 15, RandDen),
              urban |-> MathFloor(r(2) * 20, RandDen) + 5,
              agriculture |-> MathFloor(r(3) * 25, RandDen) + 15,
              forest |-> MathFloor(r(4) * 35, RandDen) + 20,
              other |-> MathFloor(r(5) * 20, RandDen),
              dataSource |-> "Estimation (zone tropicale)"]

\* temperature in tenths of a degree C, wind speed in tenths of a m/s
generateWeatherDataFromLocation(ring, seed) ==
    LET centerLat == centerOf(ring, 1)
        r(i) == Random(seed, i)
        d == 20 * centerLat.den * RandDen
        \* 10 * baseTemp, as a numerator over d
        season == IF centerLat.num >= 0 THEN 30 ELSE 0 - 30
        baseTemp ==
            (250 + season) * d - Abs(centerLat.num) * RandDen
                + (50 * r(1) - 25 * RandDen) * 20 * centerLat.den
    IN  [temperature |->
             IF centerLat.den = 0 THEN NaN ELSE MathRound(baseTemp, d),
         humidity |-> MathFloor(r(2) * 50, RandDen) + 30,
         windSpeed |-> MathFloor(r(3) * 50, RandDen) + 10,
         description |-> "Donnees meteo estimees",
         pressure |-> 1013 + MathFloor(r(4) * 20, RandDen) - 10,
         clouds |-> MathFloor(r(5) * 100, RandDen),
         dataSource |-> "Simulation basee sur la localisation"]

\* estimateElevationFromLocation without the box of the Himalaya
estimateElevationFromLocationNoHimalaya(ring, seed) ==
    LET centerLat == centerOf(ring, 1)
        centerLng == centerOf(ring, 2)
        r(i) == Random(seed, i)
        baseElevation ==
            IF Gt(centerLat, 43) /\ Lt(centerLat, 48)
                /\ Gt(centerLng, 5) /\ Lt(centerLng, 15)
            THEN MathRound(r(2) * 2000 + 1000 * RandDen, RandDen)
            ELSE IF Gt(centerLat, -50) /\ Lt(centerLat, 10)
                /\ Gt(centerLng, -80) /\ Lt(centerLng, -65)
            THEN MathRound(r(2) * 3000 + 1500 * RandDen, RandDen)
            ELSE IF Gt(centerLat, 35) /\ Lt(centerLat, 60)
                /\ Gt(centerLng, -125) /\ Lt(centerLng, -105)
            THEN MathRound(r(2) * 2000 + 1000 * RandDen, RandDen)
            ELSE MathRound(r(1) * 200 + 50 * RandDen, RandDen)
    IN  IF isLikelyOceanLocation(centerLat, centerLng)
        THEN [centerElevation |-> 0, unit |-> "metres",
              dataSource |-> "Estimation (ocean)"]
        ELSE [centerElevation |-> baseElevation, unit |-> "metres",
              dataSource |-> "Estimation basee sur la localisation"]

estimateElevationFromLocation(ring, seed) ==
    LET centerLat == centerOf(ring, 1)
        centerLng == centerOf(ring, 2)
        r(i) == Random(seed, i)
        baseElevation ==
            IF Gt(centerLat, 43) /\ Lt(centerLat, 48)
                /\ Gt(centerLng, 5) /\ Lt(centerLng, 15)
            THEN MathRound(r(2) * 2000 + 1000 * RandDen, RandDen)
            ELSE IF Gt(centerLat, 27) /\ Lt(centerLat, 36)
                /\ Gt(centerLng, 70) /\ Lt(centerLng, 95)
            THEN MathRound(r(2) * 4000 + 2000 * RandDen, RandDen)
            ELSE IF Gt(centerLat, -50) /\ Lt(centerLat, 10)
                /\ Gt(centerLng, -80) /\ Lt(centerLng, -65)
            THEN MathRound(r(2) * 3000 + 1500 * RandDen, RandDen)
            ELSE IF Gt(centerLat, 35) /\ Lt(centerLat, 60)
                /\ Gt(centerLng, -125) /\ Lt(centerLng, -105)
            THEN MathRound(r(2) * 2000 + 1000 * RandDen, RandDen)
            ELSE MathRound(r(1) * 200 + 50 * RandDen, RandDen)
    IN  IF isLikelyOceanLocation(centerLat, centerLng)
        THEN [centerElevation |-> 0, unit |-> "metres",
              dataSource |-> "Estimation (ocean)"]
        ELSE [centerElevation |-> baseElevation, unit |-> "metres",
              dataSource |-> "Estimation basee sur la localisation"]

\* the month labels of apiService.js
months ==
    << "Jan", "Fev", "Mar", "Avr", "Mai", "Juin", "Juil", "Aout", "Sep",
       "Oct", "Nov", "Dec" >>

\* 1000 * Math.sin((m / 12) * 2 * Math.PI) for an integer m
SinTwelfth(m) ==
    LET a == ((m % 12) + 12) % 12
    IN  CASE a \in {0, 6} -> 0
          [] a \in {1, 5} -> 500
          [] a \in {2, 4} -> 866
          [] a = 3 -> 1000
          [] a \in {7, 11} -> 0 - 500
          [] a \in {8, 10} -> 0 - 866
          [] a = 9 -> 0 - 1000

\* temperatures in tenths of a degree C, precipitation in mm; the rain term
\* is computed from the temperatures at their tenth-of-a-degree resolution
generateClimateDataFromLocation(ring, seed) ==
    LET centerLat == centerOf(ring, 1)
        isNorthernHemisphere == centerLat.den > 0 /\ centerLat.num >= 0
        den == centerLat.den
        a == Abs(centerLat.num)
        \* temperatureRange and baseTemperature, numerators over 200 * den
        temperatureRange == 2 * (Min(3500 * den, a) + 500 * den)
        baseTemperature == Max(1000 * den, 5000 * den - a)
        shift == IF isNorthernHemisphere THEN 0 - 3 ELSE 3
        temp(i) ==
            IF den = 0 THEN NaN
            ELSE MathRound(
                    10000 * baseTemperature
                        + 5 * temperatureRange * SinTwelfth(i + shift),
                    200000 * den)
        temperatures == [i \in 1 .. 12 |-> temp(i - 1)]
        k == Random(seed, 1)
        rain(i) ==
            LET prev == IF i > 1 THEN temperatures[i - 1] ELSE temperatures[12]
                rainFactor == 15 * Abs(temperatures[i] - prev) + temperatures[i]
                v == 600 * RandDen + 1200 * k + Random(seed, i + 1) * rainFactor
            IN  IF den = 0 THEN NaN
                ELSE MathRound(Max(150 * RandDen, v), 30 * RandDen)
    IN  [months |-> months,
         temperatures |-> temperatures,
         precipitation |-> [i \in 1 .. 12 |-> rain(i)],
         dataSource |-> "Donnees simulees basees sur la localisation"]

----------------------------------------------------------------------------
(* Providers and their responses *)

\* the network sources of each chain, in the order the code tries them
Providers(fn) ==
    CASE fn = "elevation" -> << "OpenElevation", "GoogleElevation" >>
      [] fn = "weather" -> << "OpenWeatherMap", "WeatherAPI" >>
      [] fn = "climate" -> << "WorldBankClimate" >>
      [] fn = "population" -> << "WorldPop", "OpenCage" >>
      [] fn = "landUse" -> << "Overpass" >>

Chains == {"elevation", "weather", "climate", "population", "landUse"}

\* a response: kind "ok" is a well-formed body, "empty" a body without the
\* data the chain reads (no list, or an empty one), "malformed" a body that
\* holds the list or object the chain tests for but not the fields it reads
\* from it, "error" a network or HTTP error thrown by axios
Response(kind, body) == [kind |-> kind, body |-> body]

OpenWeatherBody ==
    [temp |-> 185, humidity |-> 60, speed |-> 42, description |-> "ciel degage",
     icon |-> "01d", pressure |-> 1015, clouds |-> 0, rain |-> 0,
     name |-> "Bourges", country |-> "FR"]

WeatherApiBody ==
    [temp_c |-> 190, humidity |-> 55, wind_kph |-> 18, text |-> "Sunny",
     icon |-> "113.png", pressure_mb |-> 1014, cloud |-> 10,
     name |-> "Bourges", country |-> "France"]

\* rows returned by the climate portal
ClimateRows ==
    << [month |-> "Jan", temperature |-> 35, precipitation |-> 60],
       [month |-> "Feb", temperature |-> 48, precipitation |-> 50],
       [month |-> "Juil", temperature |-> 201, precipitation |-> 55] >>

\* elements returned by Overpass: tags.landuse and tags.natural of each
Element(landuse, natural) == [landuse |-> landuse, natural |-> natural]

OverpassBodies ==
    { << >>,
      << Element("residential", "none"), Element("farmland", "none"),
         Element("none", "wood") >>,
      << Element("residential", "none"), Element("farmland", "none"),
         Element("none", "wood"), Element("none", "water"),
         Element("none", "water"), Element("none", "water"),
         Element("none", "water"), Element("none", "water") >> }

\* results[0].components of a reverse geocoding
Components(code, country, city) ==
    [country_code |-> code, country |-> country, city |-> city]

OpenCageBodies ==
    { Components("FR", "France", "Bourges"),
      Components("zz", "Nowhere", "none"),
      Components("none", "none", "none") }

OkBodies(provider) ==
    CASE provider \in {"OpenElevation", "GoogleElevation"} -> {312}
      [] provider = "OpenWeatherMap" -> {OpenWeatherBody}
      [] provider = "WeatherAPI" -> {WeatherApiBody}
      [] provider = "WorldBankClimate" -> {ClimateRows}
      [] provider = "WorldPop" -> {1200}
      [] provider = "OpenCage" -> OpenCageBodies
      [] provider = "Overpass" -> OverpassBodies

\* results: [{}] for the elevation services; main, wind, sys and the first
\* entry of weather without fields; current, condition and location without
\* fields; rows without month; data: {}; results: [{}] for the geocoding;
\* elements that is no array
MalformedBody(provider) ==
    CASE provider \in {"OpenElevation", "GoogleElevation"} -> Undefined
      [] provider = "OpenWeatherMap" ->
             [temp |-> Undefined, humidity |-> Undefined, speed |-> Undefined,
              description |-> Undefined, icon |-> Undefined,
              pressure |-> Undefined, clouds |-> 0, rain |-> 0,
              name |-> Undefined, country |-> Undefined]
      [] provider = "WeatherAPI" ->
             [temp_c |-> Undefined, humidity |-> Undefined,
              wind_kph |-> Undefined, text |-> Undefined, icon |-> Undefined,
              pressure_mb |-> Undefined, cloud |-> Undefined,
              name |-> Undefined, country |-> Undefined]
      [] provider = "WorldBankClimate" ->
             << [month |-> "none", temperature |-> 35, precipitation |-> 60] >>
      [] provider = "WorldPop" -> Undefined
      [] provider = "OpenCage" -> Undefined
      [] provider = "Overpass" -> Undefined

Responses(provider) ==
    {Response("ok", b) : b \in OkBodies(provider)}
        \cup {Response("empty", 0), Response("error", 0),
              Response("malformed", MalformedBody(provider))}

\* the credentials of the build: import.meta.env.VITE_* and process.env
Envs ==
    [openWeather : BOOLEAN, weatherApi : BOOLEAN, geocoding : BOOLEAN,
     google : {"noprocess", "absent", "present"}]

----------------------------------------------------------------------------
(* One call of a chain: an async function between its awaits *)

NoResult == [none |-> TRUE]

\* trail: the sources the call has reached, in order, each with its status
\* (skipped, pending, failed, ok, threw) and the input it consumed (the
\* response received or the Math.random() state used)
IdleTask ==
    [fn |-> "none", ring |-> MissingRing, pc |-> "idle", trail |-> << >>,
     hung |-> FALSE, result |-> NoResult, by |-> "none"]

NewTask(fn, ring) == [IdleTask EXCEPT !.fn = fn, !.ring = ring]

NoInput == [kind |-> "none", body |-> 0]

Mark(t, source, status, input) ==
    [t EXCEPT !.trail =
        Append(@, [source |-> source, status |-> status, input |-> input])]

\* the source the call is waiting for
Awaited(t) == t.trail[Len(t.trail)].source

\* await axios.get(...) / axios.post(...): the request leaves; hang says
\* whether the provider will never answer it
Request(t, provider, hang) ==
    [Mark(t, provider, "pending", NoInput) EXCEPT !.pc = "await", !.hung = hang]

\* the awaited request is answered
Answered(t, status, resp) ==
    [t EXCEPT !.trail[Len(t.trail)].status = status,
              !.trail[Len(t.trail)].input = resp]

Return(t, r, by) == [t EXCEPT !.pc = "resolved", !.result = r, !.by = by]

Throw(t) == [t EXCEPT !.pc = "rejected"]

\* the body holds the list or object the chain tests for, and the property
\* reads of the chain do not throw on it
HasList(resp) == resp.kind \in {"ok", "malformed"}

----------------------------------------------------------------------------
(* The estimator step that ends every chain *)

Estimate(fn, ring, seed) ==
    CASE fn = "elevation" -> estimateElevationFromLocation(ring, seed)
      [] fn = "weather" -> generateWeatherDataFromLocation(ring, seed)
      [] fn = "climate" -> generateClimateDataFromLocation(ring, seed)
      [] fn = "population" -> estimatePopulationFromLocation(ring, seed)
      [] fn = "landUse" -> estimateLandUseFromLocation(ring, seed)

\* every estimator but the population one starts with polygonCoords.reduce
EstimatorThrows(fn, ring) == fn # "population" /\ reduceThrows(ring)

\* the estimators reading a module-level variable that every call overwrites
\* with its ring, instead of their own argument: the ring another call in
\* progress has left there
FallbackSharedRing(t, seed) ==
    LET others == {id \in DOMAIN task :
                       task[id].pc # "idle" /\ task[id].ring # t.ring}
        ring == IF others = {} THEN t.ring
                ELSE task[CHOOSE id \in others : TRUE].ring
    IN  IF EstimatorThrows(t.fn, ring)
        THEN Throw(Mark(t, "estimator", "threw", NoInput))
        ELSE Return(Mark(t, "estimator", "ok", [kind |-> "seed", body |-> seed]),
                    Estimate(t.fn, ring, seed), "estimator")

\* the last catch block throwing the error on instead of estimating
FallbackRethrows(t, seed) == Throw(Mark(t, "estimator", "threw", NoInput))

\* return estimateXFromLocation(polygonCoords), called from a catch block
\* (or, in fetchLandUseData, from a try block whose catch calls it again):
\* what the estimator throws rejects the promise of the chain
Fallback(t, seed) ==
    IF EstimatorThrows(t.fn, t.ring)
    THEN Throw(Mark(t, "estimator", "threw", NoInput))
    ELSE Return(Mark(t, "estimator", "ok", [kind |-> "seed", body |-> seed]),
                Estimate(t.fn, t.ring, seed), "estimator")

----------------------------------------------------------------------------
(* fetchElevationData *)

\* the catch block: Google Elevation when process.env holds a key
ElevationCatch(t, env, in) ==
    IF env.google = "present" /\ ~reduceThrows(t.ring)
    THEN Request(t, "GoogleElevation", in.hang)
    ELSE Fallback(Mark(t, "GoogleElevation", "skipped", NoInput), in.seed)

ElevationStart(ring, env, in) ==
    LET t == NewTask("elevation", ring)
    IN  IF reduceThrows(ring)
        THEN ElevationCatch(Mark(t, "OpenElevation", "skipped", NoInput),
                            env, in)
        ELSE Request(t, "OpenElevation", in.hang)

ElevationResult(resp) == [centerElevation |-> resp.body, unit |-> "metres"]

\* fetchElevationData without the return of its try block: the answer of
\* Open-Elevation is read and the call goes on to the next source all the same
ElevationOnResponseNoReturn(t, env, resp, in) ==
    IF Awaited(t) = "OpenElevation"
    THEN ElevationCatch(
             Answered(t, IF HasList(resp) THEN "ok" ELSE "failed", resp),
             env, in)
    ELSE IF HasList(resp)
    THEN Return(Answered(t, "ok", resp), ElevationResult(resp), Awaited(t))
    ELSE Fallback(Answered(t, "failed", resp), in.seed)

\* results[0].elevation is read from any list that is not empty
ElevationOnResponse(t, env, resp, in) ==
    IF HasList(resp)
    THEN Return(Answered(t, "ok", resp), ElevationResult(resp), Awaited(t))
    ELSE IF Awaited(t) = "OpenElevation"
    THEN ElevationCatch(Answered(t, "failed", resp), env, in)
    ELSE Fallback(Answered(t, "failed", resp), in.seed)

----------------------------------------------------------------------------
(* fetchWeatherData *)

\* the catch block: WeatherAPI.com when a key is configured
WeatherCatch(t, env, in) ==
    IF ~reduceThrows(t.ring) /\ env.weatherApi
    THEN Request(t, "WeatherAPI", in.hang)
    ELSE Fallback(Mark(t, "WeatherAPI", "skipped", NoInput), in.seed)

\* fetchWeatherData without the test of the OpenWeatherMap key: the request
\* is sent with an undefined appid
WeatherStartNoKeyCheck(ring, env, in) ==
    LET t == NewTask("weather", ring)
    IN  IF reduceThrows(ring)
        THEN WeatherCatch(Mark(t, "OpenWeatherMap", "skipped", NoInput),
                          env, in)
        ELSE Request(t, "OpenWeatherMap", in.hang)

WeatherStart(ring, env, in) ==
    LET t == NewTask("weather", ring)
    IN  IF reduceThrows(ring) \/ ~env.openWeather
        THEN WeatherCatch(Mark(t, "OpenWeatherMap", "skipped", NoInput),
                          env, in)
        ELSE Request(t, "OpenWeatherMap", in.hang)

OpenWeatherResult(b) ==
    [temperature |-> b.temp, humidity |-> b.humidity, windSpeed |-> b.speed,
     description |-> b.description, icon |-> b.icon, pressure |-> b.pressure,
     clouds |-> b.clouds, rain |-> b.rain, location |-> b.name,
     country |-> b.country]

\* wind_kph / 3.6, in tenths of a m/s
WeatherApiResult(b) ==
    [temperature |-> b.temp_c, humidity |-> b.humidity,
     windSpeed |-> IF b.wind_kph = Undefined THEN NaN
                   ELSE MathRound(b.wind_kph * 100, 36),
     description |-> b.text, icon |-> b.icon, pressure |-> b.pressure_mb,
     clouds |-> b.cloud, rain |-> 0, location |-> b.name,
     country |-> b.country]

\* a body without main / current makes the property read throw a TypeError
WeatherOnResponse(t, env, resp, in) ==
    IF Awaited(t) = "OpenWeatherMap"
    THEN IF HasList(resp)
         THEN Return(Answered(t, "ok", resp), OpenWeatherResult(resp.body),
                     "OpenWeatherMap")
         ELSE WeatherCatch(Answered(t, "failed", resp), env, in)
    ELSE IF HasList(resp)
         THEN Return(Answered(t, "ok", resp), WeatherApiResult(resp.body),
                     "WeatherAPI")
         ELSE Fallback(Answered(t, "failed", resp), in.seed)

----------------------------------------------------------------------------
(* fetchClimateData *)

ClimateStart(ring, env, in) ==
    LET t == NewTask("climate", ring)
    IN  IF reduceThrows(ring)
        THEN Fallback(Mark(t, "WorldBankClimate", "skipped", NoInput), in.seed)
        ELSE Request(t, "WorldBankClimate", in.hang)

\* the value of the last row of rawData whose month is months[i], else 0
RECURSIVE LastOfMonth(_, _, _)
LastOfMonth(rawData, i, field) ==
    IF rawData = << >> THEN 0
    ELSE LET item == rawData[Len(rawData)]
         IN  IF item.month = months[i] THEN item[field]
             ELSE LastOfMonth(SubSeq(rawData, 1, Len(rawData) - 1), i, field)

processClimateData(rawData) ==
    [months |-> months,
     temperatures |-> [i \in 1 .. 12 |-> LastOfMonth(rawData, i, "temperature")],
     precipitation |->
         [i \in 1 .. 12 |-> LastOfMonth(rawData, i, "precipitation")],
     dataSource |-> "Donnees WorldBank Climate"]

\* fetchClimateData without the test of response.data.length: an empty list
\* is processed like any other
ClimateOnResponseNoLengthCheck(t, env, resp, in) ==
    IF resp.kind \in {"ok", "malformed", "empty"}
    THEN Return(Answered(t, "ok", resp),
                processClimateData(IF resp.kind = "empty" THEN << >>
                                   ELSE resp.body),
                "WorldBankClimate")
    ELSE Fallback(Answered(t, "failed", resp), in.seed)

ClimateOnResponse(t, env, resp, in) ==
    IF HasList(resp) /\ Len(resp.body) > 0
    THEN Return(Answered(t, "ok", resp), processClimateData(resp.body),
                "WorldBankClimate")
    ELSE Fallback(Answered(t, "failed", resp), in.seed)

----------------------------------------------------------------------------
(* fetchPopulationEstimate *)

\* String.prototype.toLowerCase on the country codes of the model
toLowerCase(code) ==
    CASE code = "FR" -> "fr"
      [] code = "DE" -> "de"
      [] OTHER -> code

\* densityData, in tenths of an inhabitant per km2
densityData ==
    [af |-> 544, al |-> 1048, dz |-> 159, us |-> 332, fr |-> 1176,
     de |-> 2356, gb |-> 2707, it |-> 2013, es |-> 929, ch |-> 2073,
     ca |-> 39, mx |-> 573, br |-> 247, ar |-> 156, au |-> 31, nz |-> 179,
     jp |-> 3348, cn |-> 1478, in |-> 3933, ru |-> 86]

\* the world average returned for a code that is not in densityData
DefaultDensity == 500

\* getCountryPopulationDensity looking the code up as it is received
getCountryPopulationDensityAsReceived(countryCode) ==
    IF countryCode \in DOMAIN densityData THEN densityData[countryCode]
    ELSE DefaultDensity

getCountryPopulationDensity(countryCode) ==
    LET code == toLowerCase(countryCode)
    IN  IF code \in DOMAIN densityData THEN densityData[code]
        ELSE DefaultDensity

\* the catch block: reverse geocoding when a key is configured
PopulationCatch(t, env, in) ==
    IF ~reduceThrows(t.ring) /\ env.geocoding
    THEN Request(t, "OpenCage", in.hang)
    ELSE Fallback(Mark(t, "OpenCage", "skipped", NoInput), in.seed)

\* the first request leaves whatever the ring is: calculateBoundingBox,
\* calculatePolygonAreaInKm2 and coordsToGeoJSON accept a missing ring
PopulationStart(ring, env, in) ==
    Request(NewTask("population", ring), "WorldPop", in.hang)

\* Math.round(population / area): Infinity or NaN when the area is 0
WorldPopResult(ring, population) ==
    LET area == calculatePolygonAreaInKm2(ring)
    IN  [population |-> IF population = Undefined THEN NaN ELSE population,
         density |->
             IF population = Undefined THEN NaN
             ELSE IF area > 0 THEN MathRound(100 * population, area)
             ELSE IF population > 0 THEN Infinity ELSE NaN,
         area |-> area]

OpenCageResult(ring, components) ==
    LET area == calculatePolygonAreaInKm2(ring)
        countryDensity == getCountryPopulationDensity(components.country_code)
    IN  [population |-> MathRound(countryDensity * area, 1000),
         density |-> countryDensity,
         area |-> area,
         country |-> components.country,
         locality |-> components.city]

PopulationOnResponse(t, env, resp, in) ==
    IF Awaited(t) = "WorldPop"
    THEN IF HasList(resp)
         THEN Return(Answered(t, "ok", resp), WorldPopResult(t.ring, resp.body),
                     "WorldPop")
         ELSE PopulationCatch(Answered(t, "failed", resp), env, in)
    ELSE IF resp.kind = "ok" /\ resp.body.country_code # "none"
         THEN Return(Answered(t, "ok", resp),
                     OpenCageResult(t.ring, resp.body), "OpenCage")
         ELSE Fallback(Answered(t, "failed", resp), in.seed)

----------------------------------------------------------------------------
(* fetchLandUseData *)

\* the number of elements whose tag has the value
CountTag(elements, tag, value) ==
    Cardinality({i \in 1 .. Len(elements) : elements[i][tag] = value})

\* fetchLandUseData returning 100 - calculatedTotal as it is, below 0 too
OverpassResultNoClamp(elements) ==
    LET total == CountTag(elements, "landuse", "residential")
                     + CountTag(elements, "landuse", "farmland")
                     + CountTag(elements, "natural", "wood")
                     + CountTag(elements, "natural", "water")
        pct(tag, value) == MathRound(CountTag(elements, tag, value) * 100, total)
    IN  [urban |-> pct("landuse", "residential"),
         agriculture |-> pct("landuse", "farmland"),
         forest |-> pct("natural", "wood"),
         water |-> pct("natural", "water"),
         other |-> 100 - (pct("landuse", "residential")
                            + pct("landuse", "farmland")
                            + pct("natural", "wood")
                            + pct("natural", "water")),
         dataSource |-> "OpenStreetMap"]

\* fetchLandUseData returning the counts times 100, not divided by their sum
OverpassResultUndivided(elements) ==
    LET pct(tag, value) == CountTag(elements, tag, value) * 100
        calculatedTotal == pct("landuse", "residential")
                               + pct("landuse", "farmland")
                               + pct("natural", "wood")
                               + pct("natural", "water")
    IN  [urban |-> pct("landuse", "residential"),
         agriculture |-> pct("landuse", "farmland"),
         forest |-> pct("natural", "wood"),
         water |-> pct("natural", "water"),
         other |-> Max(0, 100 - calculatedTotal),
         dataSource |-> "OpenStreetMap"]

OverpassResult(elements) ==
    LET urban == CountTag(elements, "landuse", "residential")
        agriculture == CountTag(elements, "landuse", "farmland")
        forest == CountTag(elements, "natural", "wood")
        water == CountTag(elements, "natural", "water")
        total == urban + agriculture + forest + water
        urbanPercent == MathRound(urban * 100, total)
        agriculturePercent == MathRound(agriculture * 100, total)
        forestPercent == MathRound(forest * 100, total)
        waterPercent == MathRound(water * 100, total)
        calculatedTotal ==
            urbanPercent + agriculturePercent + forestPercent + waterPercent
        otherPercent == 100 - calculatedTotal
    IN  [urban |-> urbanPercent, agriculture |-> agriculturePercent,
         forest |-> forestPercent, water |-> waterPercent,
         other |-> IF otherPercent >= 0 THEN otherPercent ELSE 0,
         dataSource |-> "OpenStreetMap"]

\* total === 0
NoMatch(elements) ==
    CountTag(elements, "landuse", "residential")
        + CountTag(elements, "landuse", "farmland")
        + CountTag(elements, "natural", "wood")
        + CountTag(elements, "natural", "water") = 0

\* fetchLandUseData without the test of the area: the request is sent
\* whatever the size of the polygon
LandUseStartNoAreaCheck(ring, env, in) ==
    Request(NewTask("landUse", ring), "Overpass", in.hang)

\* a polygon of more than 100 km2 is estimated without any request
LandUseStart(ring, env, in) ==
    LET t == NewTask("landUse", ring)
    IN  IF calculatePolygonAreaInKm2(ring) > LargeAreaKm2 * 100
        THEN Fallback(Mark(t, "Overpass", "skipped", NoInput), in.seed)
        ELSE Request(t, "Overpass", in.hang)

LandUseOnResponse(t, env, resp, in) ==
    IF resp.kind = "ok" /\ ~NoMatch(resp.body)
    THEN Return(Answered(t, "ok", resp), OverpassResult(resp.body), "Overpass")
    ELSE Fallback(Answered(t, "failed", resp), in.seed)

----------------------------------------------------------------------------
(* The chains, by name *)

\* the call of a chain up to its first await (or to its end)
Start(fn, ring, env, in) ==
    CASE fn = "elevation" -> ElevationStart(ring, env, in)
      [] fn = "weather" -> WeatherStart(ring, env, in)
      [] fn = "climate" -> ClimateStart(ring, env, in)
      [] fn = "population" -> PopulationStart(ring, env, in)
      [] fn = "landUse" -> LandUseStart(ring, env, in)

\* the continuation of a chain from an answered await to the next await (or
\* to its end)
OnResponse(t, env, resp, in) ==
    CASE t.fn = "elevation" -> ElevationOnResponse(t, env, resp, in)
      [] t.fn = "weather" -> WeatherOnResponse(t, env, resp, in)
      [] t.fn = "climate" -> ClimateOnResponse(t, env, resp, in)
      [] t.fn = "population" -> PopulationOnResponse(t, env, resp, in)
      [] t.fn = "landUse" -> LandUseOnResponse(t, env, resp, in)

\* the entries of the trail of a call that name the source
EntriesOf(t, source) == {i \in 1 .. Len(t.trail) : t.trail[i].source = source}

\* the source of the entry did not deliver: the request failed, or it was not
\* sent (credential absent, or an exception before the request)
Failed(e) == e.status \in {"failed", "skipped"}

\* every provider of the chain has failed
AllProvidersFailed(t) ==
    \A k \in 1 .. Len(Providers(t.fn)) :
        \E i \in EntriesOf(t, Providers(t.fn)[k]) : Failed(t.trail[i])

\* what a step between two awaits draws: the state of Math.random() when it
\* ends in an estimator, or the fate of the request when it ends in one (no
\* step does both)
Inputs == {i \in [seed : Seeds, hang : BOOLEAN] : i.hang => i.seed = 0}

----------------------------------------------------------------------------
(* Initial values of the components *)

Settled(t) == t.pc \in {"resolved", "rejected"}

\* useState(...) of App; request counts the polygons drawn so far and open
\* holds the calls of handlePolygonDrawn that wait for their Promise.all
InitApp ==
    [polygonCoords |-> EmptyRing, polygonMetrics |-> NoResult,
     weatherData |-> NoResult, populationData |-> NoResult,
     elevationData |-> NoResult, isLoading |-> FALSE,
     request |-> 0, open |-> {}, caught |-> {}]

\* useState(...) of DataDisplay; effectPending says that a render has changed
\* polygonData or dataType and the effect has not run yet, open holds the
\* calls of fetchData that wait for their chain
InitDisplay ==
    [chartData |-> NoResult, isLoading |-> FALSE, dataType |-> "landUse",
     error |-> "null", dataSource |-> "null", effectPending |-> TRUE,
     fetches |-> 0, selects |-> 0, open |-> {}]

\* the map when DrawControl has rendered for the first time and its effect
\* has not run yet: renders counts the renders of App, each of which creates
\* a new handlePolygonDrawn; controls holds the Draw controls on the map and
\* handlers the listeners of L.Draw.Event.CREATED in the order they were
\* registered, each named by the render whose onPolygonDrawn it calls;
\* created holds, for every polygon drawn, the listeners that ran
InitMap ==
    [renders |-> 1, effectPending |-> TRUE, controls |-> {},
     handlers |-> << >>, created |-> << >>]

\* no geometry function has been called
NoCalc == [op |-> "none", args |-> << >>, outs |-> << >>]

----------------------------------------------------------------------------
(* Direct calls of the exported functions *)

\* the call made directly on an exported function
Slots == {"a"}

Init ==
    /\ keys \in Envs
    /\ task = [id \in Slots |-> IdleTask]
    /\ ncalls = 0
    /\ app = InitApp
    /\ display = InitDisplay
    /\ calc = NoCalc
    /\ map = InitMap

\* fetchXData(polygonCoords): a caller invokes a chain on a ring
Call(id, rings, inputs, max) ==
    /\ ncalls < max
    /\ task[id].pc = "idle" \/ Settled(task[id])
    /\ \E fn \in Chains, ring \in rings, in \in inputs :
           task' = [task EXCEPT ![id] = Start(fn, ring, keys, in)]
    /\ ncalls' = ncalls + 1
    /\ UNCHANGED << keys, app, display, calc, map >>

\* a provider answers the request a call is waiting for
Respond(id, inputs) ==
    /\ task[id].pc = "await"
    /\ ~task[id].hung
    /\ \E resp \in Responses(Awaited(task[id])), in \in inputs :
           task' = [task EXCEPT ![id] = OnResponse(task[id], keys, resp, in)]
    /\ UNCHANGED << keys, ncalls, app, display, calc, map >>

CallChain == \E id \in DOMAIN task : Call(id, ApiRings, Inputs, MaxCalls)

ProviderResponds == \E id \in DOMAIN task : Respond(id, Inputs)

Next == CallChain \/ ProviderResponds

Spec == Init /\ [][Next]_vars

----------------------------------------------------------------------------
(* Two callers at once: calls of the chains that overlap and follow one     *)
(* another                                                                   *)

PairSlots == {"a", "b"}

\* one build without any credential and one with all of them
PairEnvs ==
    {e \in Envs : /\ e.openWeather = e.weatherApi
                  /\ e.weatherApi = e.geocoding
                  /\ e.geocoding = (e.google = "present")
                  /\ e.google # "noprocess"}

PairRings == {SmallLandRing, SmallOceanRing}

\* every request is answered; the first and the last state of Math.random()
PairInputs == [seed : {0, RandDen * RandDen - 1}, hang : {FALSE}]

PairInit ==
    /\ keys \in PairEnvs
    /\ task = [id \in PairSlots |-> IdleTask]
    /\ ncalls = 0
    /\ app = InitApp
    /\ display = InitDisplay
    /\ calc = NoCalc
    /\ map = InitMap

PairCall == \E id \in DOMAIN task : Call(id, PairRings, PairInputs, MaxPairCalls)

PairResponds == \E id \in DOMAIN task : Respond(id, PairInputs)

PairNext == PairCall \/ PairResponds

PairSpec == PairInit /\ [][PairNext]_vars

----------------------------------------------------------------------------
(* fetchLandUseData against the answers of Overpass: every number of        *)
(* elements of the four kinds up to MaxCount                                 *)

\* the numbers of residential, farmland, wood and water elements
CountVectors == [1 .. 4 -> 0 .. MaxCount]

RECURSIVE Repeat(_, _)
Repeat(x, n) == IF n = 0 THEN << >> ELSE << x >> \o Repeat(x, n - 1)

\* response.data.elements with these numbers of elements, and one element
\* whose tags match none of the four
ElementsOf(c) ==
    Repeat(Element("residential", "none"), c[1])
        \o Repeat(Element("farmland", "none"), c[2])
        \o << Element("meadow", "scrub") >>
        \o Repeat(Element("none", "wood"), c[3])
        \o Repeat(Element("none", "water"), c[4])

\* polygons below the threshold, one for each branch of the estimator: in
\* France, in the ocean, in Scandinavia, in the Himalaya, in central Africa
LandUseRings ==
    PairRings \cup {TriangleAt(6500, 2000), TriangleAt(3000, 8000),
                    TriangleAt(500, 2000)}

\* fetchLandUseData(polygonCoords) on a polygon below the threshold
LandUseCalled ==
    /\ ncalls < MaxCalls
    /\ task["a"].pc = "idle" \/ Settled(task["a"])
    /\ \E ring \in LandUseRings, in \in PairInputs :
           task' = [task EXCEPT !["a"] = Start("landUse", ring, keys, in)]
    /\ ncalls' = ncalls + 1
    /\ UNCHANGED << keys, app, display, calc, map >>

\* Overpass answers with a list of elements
OverpassAnswers ==
    /\ task["a"].pc = "await"
    /\ \E c \in CountVectors, in \in PairInputs :
           task' = [task EXCEPT !["a"] =
                       OnResponse(task["a"], keys,
                                  Response("ok", ElementsOf(c)), in)]
    /\ UNCHANGED << keys, ncalls, app, display, calc, map >>

LandUseNext == LandUseCalled \/ OverpassAnswers

LandUseSpec == PairInit /\ [][LandUseNext]_vars

----------------------------------------------------------------------------
(* geoUtils.js: the metrics App computes for a drawn polygon *)

\* the Gauss formula with the radius in metres; area in units of 10^4 m2
calculatePolygonArea(ring) ==
    IF ~ring.present \/ Len(ring.pts) < 3 THEN 0
    ELSE (Abs(EdgeSum(ring.pts)) * AreaScale) \div 1000

\* Math.sin of a latitude given in thousandths of a degree, times 10^9, at
\* the latitudes of the small squares
SinE9(lat) ==
    CASE lat = 0 - 4 -> 0 - 69813
      [] lat = 0 -> 0
      [] lat = 5 -> 87266
      [] lat = 6 -> 104720
      [] lat = 9 -> 157080
      [] lat = 12 -> 209440
      [] lat = 1000 -> 17452406
      [] lat = 1009 -> 17609462

\* the edge sum of calculatePolygonArea for points in thousandths of a
\* degree: longitude times SinE9
EdgeSumE9(points) ==
    LET n == Len(points)
        term[i \in 1 .. n] ==
            LET j == (i % n) + 1
            IN  Fl(Fl(points[i][2] * SinE9(points[j][1]))
                       - Fl(points[j][2] * SinE9(points[i][1])))
        acc[i \in 0 .. n] == IF i = 0 THEN 0 ELSE Fl(acc[i - 1] + term[i])
    IN  acc[n]

\* calculatePolygonArea without the division by 2
calculatePolygonAreaM2Undivided(ring) ==
    IF ~ring.present \/ Len(ring.pts) < 3 THEN 0
    ELSE ((Abs(EdgeSumE9(ring.pts)) \div 100) * 2 * AreaScale) \div 100

\* calculatePolygonArea of a ring whose points are in thousandths of a
\* degree, in m2: earthRadius^2 / 2 * (pi / 180000) / 10^9 is
\* AreaScale / 10^4
calculatePolygonAreaM2(ring) ==
    IF ~ring.present \/ Len(ring.pts) < 3 THEN 0
    ELSE ((Abs(EdgeSumE9(ring.pts)) \div 100) * AreaScale) \div 100

\* the haversine distance of two points in tenths of a millimetre, at the
\* edges of the rings above; the formula gives the same number for an edge
\* and for its reverse
haversine(p, q) ==
    Fl(CASE p = q -> 0
         [] {p, q} = {<<4600, 200>>, <<4600, 210>>} -> 77242481
         [] {p, q} = {<<4600, 210>>, <<4610, 200>>} -> 135351111
         [] {p, q} = {<<4610, 200>>, <<4600, 200>>} -> 111194927
         [] {p, q} = {<<4600, 200>>, <<4600, 220>>} -> 154484933
         [] {p, q} = {<<4600, 220>>, <<4620, 220>>} -> 222389853
         [] {p, q} = {<<4620, 220>>, <<4620, 200>>} -> 153925578
         [] {p, q} = {<<4620, 200>>, <<4600, 200>>} -> 222389853
         [] {p, q} = {<<0, -3000>>, <<0, -2990>>} -> 111194927
         [] {p, q} = {<<0, -2990>>, <<10, -3000>>} -> 157253333
         [] {p, q} = {<<10, -3000>>, <<0, -3000>>} -> 111194927)

\* calculatePolygonPerimeter without the edge from the last point back to the
\* first
calculatePolygonPerimeterOpen(ring) ==
    IF ~ring.present \/ Len(ring.pts) < 2 THEN 0
    ELSE LET n == Len(ring.pts)
             acc[i \in 0 .. (n - 1)] ==
                 IF i = 0 THEN 0
                 ELSE Fl(acc[i - 1] + haversine(ring.pts[i], ring.pts[i + 1]))
         IN  acc[n - 1]

\* perimeter in tenths of a millimetre: perimeter += distance
calculatePolygonPerimeter(ring) ==
    IF ~ring.present \/ Len(ring.pts) < 2 THEN 0
    ELSE LET n == Len(ring.pts)
             acc[i \in 0 .. n] ==
                 IF i = 0 THEN 0
                 ELSE Fl(acc[i - 1]
                           + haversine(ring.pts[i], ring.pts[(i % n) + 1]))
         IN  acc[n]

\* the value JavaScript calls null
Null == [null |-> TRUE]

\* coordsToGeoJSON that repeats the first point whether the ring is closed or
\* not
coordsToGeoJSONAlwaysCloses(ring) ==
    IF ~ring.present \/ Len(ring.pts) < 3 THEN Null
    ELSE LET n == Len(ring.pts)
             coordinates ==
                 [i \in 1 .. n |-> << ring.pts[i][2], ring.pts[i][1] >>]
         IN  [type |-> "Feature",
              geometry |-> [type |-> "Polygon",
                            coordinates |->
                                << Append(coordinates, coordinates[1]) >>]]

\* the arrays coordsToGeoJSON works on: its parameter polygonCoords and its
\* local coordinates; shared says that the two names denote one array
ArraysOf(ring) ==
    [polygonCoords |-> ring.pts, coordinates |-> << >>, shared |-> FALSE]

\* the points with latitude and longitude exchanged
LngLat(pts) == [i \in 1 .. Len(pts) |-> << pts[i][2], pts[i][1] >>]

\* the exchange done on the array itself, coordinates being that array
MapInPlace(arrays) ==
    [arrays EXCEPT !.polygonCoords = LngLat(@),
                   !.coordinates = LngLat(arrays.polygonCoords),
                   !.shared = TRUE]

\* const coordinates = polygonCoords.map((coord) => [coord[1], coord[0]]):
\* Array.prototype.map returns a new array of new points
MapToCoordinates(arrays) ==
    [arrays EXCEPT !.coordinates = LngLat(arrays.polygonCoords),
                   !.shared = FALSE]

\* coordinates.push([...coordinates[0]])
PushFirst(arrays) ==
    LET longer == Append(arrays.coordinates, arrays.coordinates[1])
    IN  [arrays EXCEPT !.coordinates = longer,
                       !.polygonCoords = IF arrays.shared THEN longer ELSE @]

\* the arrays when coordsToGeoJSON returns its Feature, for a ring of three
\* points or more
coordsToGeoJSONArrays(ring) ==
    LET mapped == MapToCoordinates(ArraysOf(ring))
        n == Len(mapped.coordinates)
    IN  IF mapped.coordinates[1] # mapped.coordinates[n]
        THEN PushFirst(mapped)
        ELSE mapped

\* the GeoJSON feature of the ring: [lng, lat] points, the first one repeated
\* at the end when the ring is not closed
coordsToGeoJSON(ring) ==
    IF ~ring.present \/ Len(ring.pts) < 3 THEN Null
    ELSE [type |-> "Feature",
          geometry |-> [type |-> "Polygon",
                        coordinates |->
                            << coordsToGeoJSONArrays(ring).coordinates >>]]

\* q.toFixed(6), in millionths of a degree
toFixed6(q) == MathRound(q.num * 10000, q.den)

----------------------------------------------------------------------------
(* The geometry functions called on their own: calc holds the function, the  *)
(* arguments it is called on one after another, and the results so far       *)

\* the vertex list started at its k-th point
Rotation(ring, k) ==
    Ring([i \in 1 .. Len0(ring) |-> ring.pts[((i + k - 2) % Len0(ring)) + 1]])

\* the vertex list in the opposite order
Reversal(ring) ==
    Ring([i \in 1 .. Len0(ring) |-> ring.pts[Len0(ring) + 1 - i]])

\* the rings of three points and more, every one with its rotations and
\* their reversals, the rings that are too short and a ring that is closed
GeoRings ==
    LET polygons == {SmallLandRing, LargeLandRing, SmallOceanRing}
        rotations == {Rotation(r, k) : r \in polygons, k \in 1 .. 4}
    IN  rotations \cup {Reversal(r) : r \in rotations}
            \cup {MissingRing, EmptyRing, Ring(<< <<4600, 200>> >>), ShortRing,
                  ClosedLandRing, ThereAndBackRing}

\* latitudes and longitudes in hundredths of a degree: the limits of the
\* tests of isLikelyOceanLocation, a hundredth below and above each, the
\* ends of the scales, central France and the mid Atlantic
OceanPoints ==
    LET lats == {100 * b + d : b \in {-60, -45, -40, -10, 0, 15, 35, 70, 75},
                               d \in {-1, 0, 1}} \cup {-9000, 4600, 9000}
        lngs == {100 * b + d : b \in {-170, -80, -50, -35, -20, -10, 40, 55,
                                       110, 155, 180},
                               d \in {-1, 0, 1}} \cup {-18000, -3000, 200}
    IN  lats \X lngs

\* the mountain boxes of the elevation estimator with the band each one
\* draws from: south, north, west, east in degrees, least and greatest
\* elevation in metres (Alps, Himalaya, Andes, Rocky Mountains)
MountainBoxes ==
    {<< 43, 48, 5, 15, 1000, 3000 >>, << 27, 36, 70, 95, 2000, 6000 >>,
     << -50, 10, -80, -65, 1500, 4500 >>, << 35, 60, -125, -105, 1000, 3000 >>}

\* points of the mountain boxes, in hundredths of a degree: a hundredth
\* inside each side and the middle
MountainPoints ==
    LET inside(lo, hi) == {100 * lo + 1, 50 * (lo + hi), 100 * hi - 1}
    IN  UNION {inside(b[1], b[2]) \X inside(b[3], b[4]) : b \in MountainBoxes}

\* a square with sides of d thousandths of a degree along the parallels and
\* the meridians, and one standing on a corner with diagonals of 2 * d
SquareAt(lat, lng, d) ==
    Ring(<< <<lat, lng>>, <<lat, lng + d>>, <<lat + d, lng + d>>,
            <<lat + d, lng>> >>)

DiamondAt(lat, lng, d) ==
    Ring(<< <<lat, lng + d>>, <<lat + d, lng + 2 * d>>,
            <<lat + 2 * d, lng + d>>, <<lat + d, lng>> >>)

\* squares with corners about 1 km apart, in thousandths of a degree: at the
\* equator on the meridians of 0, 10 and -10 degrees, across the equator,
\* one degree north of it, and one on a corner; each one in both directions
\* and from every corner
SmallSquares ==
    LET squares == {SquareAt(0, 0, 9), SquareAt(0, 10000, 9),
                    SquareAt(0, 0 - 10000, 9), SquareAt(0 - 4, 0, 9),
                    SquareAt(1000, 0, 9), DiamondAt(0, 0, 6)}
        rotations == {Rotation(r, k) : r \in squares, k \in 1 .. 4}
    IN  rotations \cup {Reversal(r) : r \in rotations}

GeoOps ==
    {"calculatePolygonArea", "calculatePolygonPerimeter", "coordsToGeoJSON",
     "calculateBoundingBox", "center"}

\* what a call returns, or that it threw
Value(v) == [threw |-> FALSE, value |-> v]

Thrown == [threw |-> TRUE, value |-> 0]

\* the call op(arg); center is coords.reduce(...) / coords.length for the
\* latitude and the longitude
GeoApply(op, arg) ==
    CASE op = "calculatePolygonArea" -> Value(calculatePolygonArea(arg))
      [] op = "calculatePolygonPerimeter" ->
             Value(calculatePolygonPerimeter(arg))
      [] op = "coordsToGeoJSON" -> Value(coordsToGeoJSON(arg))
      [] op = "calculateBoundingBox" -> Value(calculateBoundingBox(arg))
      [] op = "center" ->
             IF reduceThrows(arg) THEN Thrown
             ELSE Value([lat |-> centerOf(arg, 1), lng |-> centerOf(arg, 2)])
      [] op = "isLikelyOceanLocation" ->
             Value(isLikelyOceanLocation(Quot(arg[1], 1), Quot(arg[2], 1)))

\* the array the caller passed, once the function has returned or thrown:
\* the area, the perimeter, the bounding box and the centre read
\* polygonCoords[i][k] and assign to their own locals only
ArgumentAfter(op, ring) ==
    IF op = "coordsToGeoJSON" /\ ring.present /\ Len(ring.pts) >= 3
    THEN [ring EXCEPT !.pts = coordsToGeoJSONArrays(ring).polygonCoords]
    ELSE ring

\* a point to classify, a geometry function and two rings to call it on, or
\* a small square to measure; after holds the rings as the calls left them
GeoInit ==
    /\ keys \in {e \in PairEnvs : ~e.geocoding}
    /\ task = [id \in Slots |-> IdleTask]
    /\ ncalls = 0
    /\ app = InitApp
    /\ display = InitDisplay
    /\ map = InitMap
    /\ calc \in {[op |-> "isLikelyOceanLocation", args |-> << p >>,
                   outs |-> << >>] : p \in OceanPoints \cup MountainPoints}
               \cup {[op |-> op, args |-> << r, v >>, outs |-> << >>,
                      after |-> << >>] :
                        op \in GeoOps, r \in GeoRings, v \in GeoRings}
               \cup {[op |-> "calculatePolygonAreaM2", args |-> << r >>,
                      outs |-> << >>] : r \in SmallSquares}

\* isLikelyOceanLocation(lat, lng)
ClassifyPoint ==
    /\ calc.op = "isLikelyOceanLocation"
    /\ Len(calc.outs) < Len(calc.args)
    /\ calc' = [calc EXCEPT !.outs =
                    Append(@, GeoApply(calc.op, calc.args[Len(@) + 1]))]
    /\ UNCHANGED << keys, task, ncalls, app, display, map >>

\* a geometry function is called on the next ring
MeasureRing ==
    /\ calc.op \in GeoOps
    /\ Len(calc.outs) < Len(calc.args)
    /\ calc' = [calc EXCEPT
                    !.outs =
                        Append(@, GeoApply(calc.op, calc.args[Len(@) + 1])),
                    !.after =
                        Append(@, ArgumentAfter(calc.op,
                                                calc.args[Len(@) + 1]))]
    /\ UNCHANGED << keys, task, ncalls, app, display, map >>

\* calculatePolygonArea is called on a small square
MeasureSquare ==
    /\ calc.op = "calculatePolygonAreaM2"
    /\ Len(calc.outs) < Len(calc.args)
    /\ calc' = [calc EXCEPT !.outs =
                    Append(@, Value(calculatePolygonAreaM2(
                                        calc.args[Len(@) + 1])))]
    /\ UNCHANGED << keys, task, ncalls, app, display, map >>

GeoNext == ClassifyPoint \/ MeasureRing \/ MeasureSquare

GeoSpec == GeoInit /\ [][GeoNext]_vars

----------------------------------------------------------------------------
(* The estimators called on their own: calc holds the estimator, the ring    *)
(* and the state of Math.random() it is called with, and the result          *)

\* where the triangles lie: Scandinavia, the Arctic Ocean, the Himalaya,
\* central Africa, the Alps, the Andes, the Rocky Mountains, Antarctica
EstimatorPoints ==
    {<<6500, 2000>>, <<7500, 0>>, <<3000, 8000>>, <<500, 2000>>,
     <<4600, 1000>>, <<0 - 2000, 0 - 7000>>, <<4000, 0 - 11000>>,
     <<0 - 7000, 0>>}

EstimatorRings ==
    ApiRings \cup {TriangleAt(p[1], p[2]) : p \in EstimatorPoints}
             \cup {CoastRing}

EstimatorOps ==
    {"estimatePopulationFromLocation", "estimateLandUseFromLocation",
     "estimateElevationFromLocation"}

\* the call op(ring) with Math.random() in the state seed
EstimatorApply(op, ring, seed) ==
    CASE op = "estimatePopulationFromLocation" ->
             Value(estimatePopulationFromLocation(ring, seed))
      [] op = "estimateLandUseFromLocation" ->
             IF reduceThrows(ring) THEN Thrown
             ELSE Value(estimateLandUseFromLocation(ring, seed))
      [] op = "estimateElevationFromLocation" ->
             IF reduceThrows(ring) THEN Thrown
             ELSE Value(estimateElevationFromLocation(ring, seed))

EstimatorInit ==
    /\ keys \in {e \in PairEnvs : ~e.geocoding}
    /\ task = [id \in Slots |-> IdleTask]
    /\ ncalls = 0
    /\ app = InitApp
    /\ display = InitDisplay
    /\ map = InitMap
    /\ calc \in {[op |-> op, args |-> << [ring |-> r, seed |-> sd] >>,
                   outs |-> << >>] :
                     op \in EstimatorOps, r \in EstimatorRings, sd \in Seeds}

\* the estimator is called
EstimateCalled ==
    /\ calc.op \in EstimatorOps
    /\ Len(calc.outs) < Len(calc.args)
    /\ calc' = [calc EXCEPT !.outs =
                    Append(@, EstimatorApply(calc.op, calc.args[1].ring,
                                             calc.args[1].seed))]
    /\ UNCHANGED << keys, task, ncalls, app, display, map >>

EstimatorSpec == EstimatorInit /\ [][EstimateCalled]_vars

----------------------------------------------------------------------------
(* App.jsx: handlePolygonDrawn *)

\* the chains of Promise.all([...]), in the order of the array
AppChains == << "weather", "population", "elevation" >>

AppTask(r, fn) == << "app", r, fn >>

AppTasks == {AppTask(r, AppChains[k]) : r \in 1 .. MaxDraws, k \in 1 .. 3}

\* what a component keeps of a call that has resolved: its result, with the
\* request it belongs to and the source that produced it
Published(r, t) ==
    [of |-> r, fn |-> t.fn, by |-> t.by, allFailed |-> AllProvidersFailed(t),
     data |-> t.result]

\* setPolygonMetrics({...})
polygonMetricsOf(r, coords) ==
    [of |-> r,
     area |-> calculatePolygonArea(coords),
     perimeter |-> calculatePolygonPerimeter(coords),
     vertexCount |-> Len0(coords),
     center |-> [lat |-> toFixed6(centerOf(coords, 1)),
                 lng |-> toFixed6(centerOf(coords, 2))]]

\* the calls handed to Promise.all by the call of handlePolygonDrawn for
\* request r
ChainsOf(tasks, r) == [k \in 1 .. 3 |-> tasks[AppTask(r, AppChains[k])]]

\* the state of the promise Promise.all returns
PromiseAll(ts) ==
    IF \E k \in DOMAIN ts : ts[k].pc = "rejected" THEN "rejected"
    ELSE IF \A k \in DOMAIN ts : ts[k].pc = "resolved" THEN "resolved"
    ELSE "pending"

\* handlePolygonDrawn awaiting each chain before it calls the next one: only
\* the first chain is started by the time the handler first waits
StartChainsOneByOne(tasks, r, coords, env, ins) ==
    [tasks EXCEPT ![AppTask(r, AppChains[1])] =
                      Start(AppChains[1], coords, env, ins[1])]

\* the array of Promise.all: the three chains are called one after another
\* before the handler waits for any
StartChains(tasks, r, coords, env, ins) ==
    [id \in DOMAIN tasks |->
        IF \E k \in 1 .. 3 : id = AppTask(r, AppChains[k])
        THEN Start(id[3], coords, env,
                   ins[CHOOSE k \in 1 .. 3 : AppChains[k] = id[3]])
        ELSE tasks[id]]


\* handlePolygonDrawn storing each result as soon as its chain has resolved,
\* and the metrics at once
ContinuePartial(a, tasks, o) ==
    LET ts == ChainsOf(tasks, o.of)
        some == \E k \in 1 .. 3 : ts[k].pc = "await"
        shown(k, old) ==
            IF ts[k].pc = "resolved" THEN Published(o.of, ts[k]) ELSE old
    IN  [a EXCEPT !.polygonMetrics = polygonMetricsOf(o.of, o.coords),
                  !.weatherData = shown(1, @),
                  !.populationData = shown(2, @),
                  !.elevationData = shown(3, @),
                  !.isLoading = some,
                  !.open = IF some THEN @ ELSE @ \ {o}]

\* the part of handlePolygonDrawn after await Promise.all, for the call o of
\* the handler: the four setters in the try block, the catch block, finally
Continue(a, tasks, o) ==
    LET ts == ChainsOf(tasks, o.of)
        done == [a EXCEPT !.isLoading = FALSE, !.open = @ \ {o}]
    IN  CASE PromiseAll(ts) = "pending" -> a
          [] PromiseAll(ts) = "rejected" ->
                 [done EXCEPT !.caught = @ \cup {o.of}]
          [] PromiseAll(ts) = "resolved" ->
                 [done EXCEPT
                     !.polygonMetrics = polygonMetricsOf(o.of, o.coords),
                     !.weatherData = Published(o.of, ts[1]),
                     !.populationData = Published(o.of, ts[2]),
                     !.elevationData = Published(o.of, ts[3])]

\* the continuation of the call of the handler for request r, if it still
\* waits
ContinueOpen(a, tasks, r) ==
    IF \E o \in a.open : o.of = r
    THEN Continue(a, tasks, CHOOSE o \in a.open : o.of = r)
    ELSE a

\* the promises of a call of the handler that has ended are dropped
Collect(tasks, a) ==
    [id \in DOMAIN tasks |->
        IF /\ id[1] = "app"
           /\ Settled(tasks[id])
           /\ ~ \E o \in a.open : o.of = id[2]
        THEN IdleTask
        ELSE tasks[id]]

\* one build without any credential and one with all the keys of
\* import.meta.env (a browser has no process.env)
AppEnvs ==
    {e \in Envs : /\ e.openWeather = e.weatherApi
                  /\ e.weatherApi = e.geocoding
                  /\ e.google = "noprocess"}

\* every request is answered; Math.random() in its first state
AppInputs == [seed : {0}, hang : {FALSE}]

\* the answers of a provider: a failure, or its first well-formed body
AppResponses(provider) ==
    {Response("error", 0),
     Response("ok",
              CASE provider = "Overpass" ->
                       << Element("residential", "none"),
                          Element("farmland", "none"),
                          Element("none", "wood") >>
                [] provider = "OpenCage" ->
                       Components("FR", "France", "Bourges")
                [] OTHER -> CHOOSE b \in OkBodies(provider) : TRUE)}

\* the rings drawn: one below and one above the threshold of fetchLandUseData
AppRings == {SmallLandRing, LargeLandRing}

\* the catch and the finally block of handlePolygonDrawn with no finally
\* block
CatchWithoutFinally(a, o) == [a EXCEPT !.caught = @ \cup {o.of}]

\* the catch and the finally block of handlePolygonDrawn after a statement
\* of its try block has thrown: console.error, then setIsLoading(false)
CatchAndFinally(a, o) ==
    [a EXCEPT !.isLoading = FALSE, !.caught = @ \cup {o.of}]

\* handlePolygonDrawn(coords), for coords of the set rings, up to its await,
\* and beyond it when no chain waits for a provider; the handler is called
\* at most n times.  Without a ring coords.reduce throws before any chain
\* is called
handlePolygonDrawnOf(n, rings) ==
    /\ app.request < n
    /\ \E coords \in rings, ins \in [1 .. 3 -> AppInputs] :
           \E o \in {[of |-> app.request + 1, coords |-> coords]} :
           \E entered \in {[app EXCEPT !.polygonCoords = coords,
                                       !.isLoading = TRUE,
                                       !.request = o.of]} :
               IF coords.present
               THEN \E started \in
                          {StartChains(task, o.of, coords, keys, ins)} :
                    \E after \in
                          {Continue([entered EXCEPT !.open = @ \cup {o}],
                                    started, o)} :
                        /\ app' = after
                        /\ task' = Collect(started, after)
               ELSE /\ app' = CatchAndFinally(entered, o)
                    /\ task' = task

\* the handler called by the draw control, which hands it the ring drawn
handlePolygonDrawn(n) == handlePolygonDrawnOf(n, AppRings)

\* onPolygonDrawn(coords): the user has drawn a polygon
DrawPolygon ==
    /\ ~display.effectPending
    /\ handlePolygonDrawn(MaxDraws)
    /\ display' = [display EXCEPT !.effectPending = TRUE]
    /\ UNCHANGED << keys, ncalls, calc, map >>

\* a provider answers a chain that handlePolygonDrawn has called; when this
\* settles the Promise.all of the handler, the handler goes on at once
AppChainResponds ==
    /\ \E id \in DOMAIN task :
           /\ id[1] = "app"
           /\ task[id].pc = "await"
           /\ ~task[id].hung
           /\ \E t \in {OnResponse(task[id], keys, resp, in) :
                          resp \in AppResponses(Awaited(task[id])),
                          in \in AppInputs} :
              \E answered \in {[task EXCEPT ![id] = t]} :
              \E after \in {ContinueOpen(app, answered, id[2])} :
                  /\ app' = after
                  /\ task' = Collect(answered, after)
    /\ UNCHANGED << keys, ncalls, display, calc, map >>

----------------------------------------------------------------------------
(* DataDisplay: the effect on [polygonData, dataType] and its fetchData *)

DataTypes == {"landUse", "population", "climate"}

DisplayTask(n) == << "display", n, "fetch" >>

DisplayTasks == {DisplayTask(n) : n \in 1 .. (MaxDraws + MaxSelects)}

\* the states of Math.random() generateAgeDistribution may start from
AgeSeeds == {0}

\* the counts of the six age groups; NaN when the population is no number
generateAgeDistribution(totalPopulation, seed) ==
    LET span == << 10, 10, 8, 8, 8, 8 >>
        base == << 15, 15, 16, 14, 10, 4 >>
        \* Math.random() * span + base, times RandDen
        distribution == [i \in 1 .. 6 |->
                            span[i] * Random(seed, i) + base[i] * RandDen]
        sum[i \in 0 .. 6] ==
            IF i = 0 THEN 0 ELSE sum[i - 1] + distribution[i]
        total == sum[6]
    IN  [i \in 1 .. 6 |->
            IF totalPopulation = NaN THEN NaN
            ELSE MathRound(distribution[i] * totalPopulation, total)]

\* data.field || 0
Or0(data, field) ==
    IF field \in DOMAIN data /\ data[field] # NaN THEN data[field] ELSE 0

generateLandUseChart(data) ==
    << Or0(data, "urban"), Or0(data, "agriculture"), Or0(data, "forest"),
       Or0(data, "water"), Or0(data, "other") >>

generatePopulationChart(data) == data

generateClimateChart(data) ==
    [labels |-> data.months, temperatures |-> data.temperatures,
     precipitation |-> data.precipitation, isClimate |-> TRUE]

\* result.dataSource || result.note || "Unknown source"; the note is read
\* for the population only
SourceLabel(type, result) ==
    IF "dataSource" \in DOMAIN result THEN result.dataSource
    ELSE IF type = "population" /\ "note" \in DOMAIN result THEN result.note
    ELSE "Unknown source"

\* setChartData(...): the chart of the call o of fetchData
Chart(o, t, seed) ==
    [of |-> o.of, n |-> o.n, type |-> o.type, by |-> t.by,
     allFailed |-> AllProvidersFailed(t),
     data |->
         CASE o.type = "landUse" -> generateLandUseChart(t.result)
           [] o.type = "population" ->
                  generatePopulationChart(
                      generateAgeDistribution(t.result.population, seed))
           [] o.type = "climate" -> generateClimateChart(t.result)]

\* the part of fetchData after its await, for the call o whose chain ended
\* as t: the case of the switch, the catch block, finally
fetchData(d, t, o, seed) ==
    LET done == [d EXCEPT !.isLoading = FALSE, !.open = @ \ {o}]
    IN  IF t.pc = "rejected"
        THEN [done EXCEPT !.error = "Unable to fetch data"]
        ELSE [done EXCEPT !.chartData = Chart(o, t, seed),
                          !.dataSource = SourceLabel(o.type, t.result)]

\* the effect runs after a render that changed polygonData or dataType
DisplayEffect ==
    /\ display.effectPending
    /\ IF app.polygonCoords.present /\ Len0(app.polygonCoords) > 0
       THEN \E in \in AppInputs, seed \in AgeSeeds :
            \E o \in {[n |-> display.fetches + 1, of |-> app.request,
                       type |-> display.dataType]} :
            \E t \in {Start(o.type, app.polygonCoords, keys, in)} :
            \E loading \in {[display EXCEPT !.effectPending = FALSE,
                                            !.isLoading = TRUE,
                                            !.error = "null",
                                            !.fetches = o.n,
                                            !.open = @ \cup {o}]} :
                IF Settled(t)
                THEN /\ display' = fetchData(loading, t, o, seed)
                     /\ task' = task
                ELSE /\ display' = loading
                     /\ task' = [task EXCEPT ![DisplayTask(o.n)] = t]
       ELSE /\ display' = [display EXCEPT !.effectPending = FALSE]
            /\ task' = task
    /\ UNCHANGED << keys, ncalls, app, calc, map >>

\* a provider answers the chain a call of fetchData waits for; when the
\* chain settles, fetchData goes on at once
DisplayChainResponds ==
    /\ \E o \in display.open :
       \E id \in {DisplayTask(o.n)} :
           /\ task[id].pc = "await"
           /\ ~task[id].hung
           /\ \E t \in {OnResponse(task[id], keys, resp, in) :
                          resp \in AppResponses(Awaited(task[id])),
                          in \in AppInputs} :
                  IF Settled(t)
                  THEN /\ \E seed \in AgeSeeds :
                              display' = fetchData(display, t, o, seed)
                       /\ task' = [task EXCEPT ![id] = IdleTask]
                  ELSE /\ display' = display
                       /\ task' = [task EXCEPT ![id] = t]
    /\ UNCHANGED << keys, ncalls, app, calc, map >>

\* onChange of the data-type select, which is rendered for a polygon that
\* is not loading
SelectDataType ==
    /\ display.selects < MaxSelects
    /\ ~display.effectPending
    /\ Len0(app.polygonCoords) > 0
    /\ ~display.isLoading
    /\ \E type \in DataTypes \ {display.dataType} :
           display' = [display EXCEPT !.dataType = type,
                                      !.selects = @ + 1,
                                      !.effectPending = TRUE]
    /\ UNCHANGED << keys, task, ncalls, app, calc, map >>

AppInit ==
    /\ keys \in AppEnvs
    /\ task = [id \in AppTasks \cup DisplayTasks |-> IdleTask]
    /\ ncalls = 0
    /\ app = InitApp
    /\ display = InitDisplay
    /\ calc = NoCalc
    /\ map = InitMap

AppNext ==
    \/ DrawPolygon
    \/ AppChainResponds
    \/ DisplayEffect
    \/ DisplayChainResponds
    \/ SelectDataType

AppSpec == AppInit /\ [][AppNext]_vars

----------------------------------------------------------------------------
(* App alone, with polygons drawn while earlier ones are still loading: the  *)
(* map and its draw control stay in place whatever isLoading is.  The state  *)
(* of App is written by handlePolygonDrawn only, so DataDisplay is left idle *)

OverlapTasks ==
    {AppTask(r, AppChains[k]) : r \in 1 .. MaxOverlap, k \in 1 .. 3}

OverlapInit ==
    /\ keys \in AppEnvs
    /\ task = [id \in OverlapTasks |-> IdleTask]
    /\ ncalls = 0
    /\ app = InitApp
    /\ display = InitDisplay
    /\ calc = NoCalc
    /\ map = InitMap

\* onPolygonDrawn(coords), whether or not an earlier call still waits
DrawNextPolygon ==
    /\ handlePolygonDrawn(MaxOverlap)
    /\ UNCHANGED << keys, ncalls, display, calc, map >>

OverlapNext == DrawNextPolygon \/ AppChainResponds

OverlapSpec == OverlapInit /\ [][OverlapNext]_vars

----------------------------------------------------------------------------
(* handlePolygonDrawn called with any value, a polygon or none, while        *)
(* earlier calls may still wait                                              *)

\* handlePolygonDrawn(coords) for a ring or for undefined
CallHandler ==
    /\ handlePolygonDrawnOf(MaxOverlap, AppRings \cup {MissingRing})
    /\ UNCHANGED << keys, ncalls, display, calc, map >>

HandlerNext == CallHandler \/ AppChainResponds

HandlerSpec == OverlapInit /\ [][HandlerNext]_vars

----------------------------------------------------------------------------
(* Map.jsx: DrawControl.  App defines handlePolygonDrawn anew in every       *)
(* render, so the effect, which depends on [map, onPolygonDrawn], runs after *)
(* every render of App.  The ref of the FeatureGroup is set when the effect  *)
(* runs: React attaches the refs of a commit before its effects.             *)

\* the effect of DrawControl: the cleanup of the run before, which removes
\* the control of that run, then map.addControl(drawControl) and
\* map.on(L.Draw.Event.CREATED, ...)
DrawControlEffect ==
    /\ map.effectPending
    /\ map' = [map EXCEPT !.effectPending = FALSE,
                          !.controls = {map.renders},
                          !.handlers = Append(@, map.renders)]
    /\ UNCHANGED << keys, task, ncalls, app, display, calc >>

\* App renders again: a setter of its state was called with a new value, as
\* when a chain of handlePolygonDrawn settles
AppRenders ==
    /\ ~map.effectPending
    /\ map.renders < MaxRenders
    /\ map' = [map EXCEPT !.renders = @ + 1, !.effectPending = TRUE]
    /\ UNCHANGED << keys, task, ncalls, app, display, calc >>

\* the user completes a polygon: Leaflet fires L.Draw.Event.CREATED and every
\* listener registered on the map runs, adds the layer and calls its
\* onPolygonDrawn, whose setPolygonCoords and setIsLoading make App render
PolygonCreated ==
    /\ ~map.effectPending
    /\ map.renders < MaxRenders
    /\ Len(map.created) < MaxCreated
    /\ map' = [map EXCEPT !.created = Append(@, map.handlers),
                          !.renders = @ + 1,
                          !.effectPending = TRUE]
    /\ UNCHANGED << keys, task, ncalls, app, display, calc >>

MapInit ==
    /\ keys \in AppEnvs
    /\ task = [id \in AppTasks |-> IdleTask]
    /\ ncalls = 0
    /\ app = InitApp
    /\ display = InitDisplay
    /\ calc = NoCalc
    /\ map = InitMap

MapNext == DrawControlEffect \/ AppRenders \/ PolygonCreated

MapSpec == MapInit /\ [][MapNext]_vars

----------------------------------------------------------------------------
(* DataDisplay alone: App renders it with polygonData={polygonCoords}, and   *)
(* setPolygonCoords is the first statement of handlePolygonDrawn, so the     *)
(* prop changes with every polygon drawn, whatever DataDisplay is doing      *)

PropTasks == {DisplayTask(n) : n \in 1 .. (MaxPolygons + MaxSelects)}

\* App renders DataDisplay with the ring of the next polygon, a new array
PolygonDataChanges ==
    /\ ~display.effectPending
    /\ app.request < MaxPolygons
    /\ \E coords \in AppRings :
           app' = [app EXCEPT !.polygonCoords = coords, !.request = @ + 1]
    /\ display' = [display EXCEPT !.effectPending = TRUE]
    /\ UNCHANGED << keys, task, ncalls, calc, map >>

PropInit ==
    /\ keys \in AppEnvs
    /\ task = [id \in PropTasks |-> IdleTask]
    /\ ncalls = 0
    /\ app = InitApp
    /\ display = InitDisplay
    /\ calc = NoCalc
    /\ map = InitMap

PropNext ==
    \/ PolygonDataChanges
    \/ DisplayEffect
    \/ DisplayChainResponds
    \/ SelectDataType

PropSpec == PropInit /\ [][PropNext]_vars

----------------------------------------------------------------------------
(* generateAgeDistribution called on its own: calc holds the total and the   *)
(* state of Math.random(), then the six counts                               *)

AgeInit ==
    /\ keys \in {e \in PairEnvs : ~e.geocoding}
    /\ task = [id \in Slots |-> IdleTask]
    /\ ncalls = 0
    /\ app = InitApp
    /\ display = InitDisplay
    /\ map = InitMap
    /\ calc \in {[op |-> "generateAgeDistribution",
                   args |-> << [totalPopulation |-> n, seed |-> sd] >>,
                   outs |-> << >>] : n \in 0 .. MaxPopulation, sd \in Seeds}

\* generateAgeDistribution(totalPop)
AgesGenerated ==
    /\ calc.op = "generateAgeDistribution"
    /\ Len(calc.outs) < Len(calc.args)
    /\ calc' = [calc EXCEPT !.outs =
                    Append(@, Value(generateAgeDistribution(
                                        calc.args[1].totalPopulation,
                                        calc.args[1].seed)))]
    /\ UNCHANGED << keys, task, ncalls, app, display, map >>

AgeSpec == AgeInit /\ [][AgesGenerated]_vars

----------------------------------------------------------------------------
(* Properties of one chain *)

\* a network request was sent for the entry
Requested(e) == e.status \in {"pending", "failed", "ok"}

IsProvider(fn, source) ==
    \E k \in 1 .. Len(Providers(fn)) : Providers(fn)[k] = source

\* the provider has a credential and the build does not hold it
CredentialAbsent(provider) ==
    \/ provider = "OpenWeatherMap" /\ ~keys.openWeather
    \/ provider = "WeatherAPI" /\ ~keys.weatherApi
    \/ provider = "OpenCage" /\ ~keys.geocoding
    \/ provider = "GoogleElevation" /\ keys.google # "present"

\* C1: the providers of a chain are requested one after another in priority
\* order: a provider is requested only when every provider before it in the
\* chain has failed, no entry follows a pending or a successful one, and a
\* call that a provider answered well returns as that provider's result.
C1_SequentialPriority ==
    \A id \in DOMAIN task :
        LET t == task[id]
            P == Providers(t.fn)
        IN  t.pc # "idle" =>
              /\ \A k \in 1 .. Len(P) :
                   \A i \in EntriesOf(t, P[k]) :
                       Requested(t.trail[i]) =>
                           \A j \in 1 .. (k - 1) :
                               \E h \in EntriesOf(t, P[j]) :
                                   h < i /\ Failed(t.trail[h])
              /\ \A i \in 1 .. Len(t.trail) :
                   t.trail[i].status \in {"pending", "ok"} =>
                       i = Len(t.trail)
              /\ \A i \in 1 .. Len(t.trail) :
                   (t.trail[i].status = "ok"
                       /\ IsProvider(t.fn, t.trail[i].source)) =>
                       t.pc = "resolved" /\ t.by = t.trail[i].source

\* a second provider delivered the result after the first one failed
C1_Witness ==
    \E id \in DOMAIN task :
        /\ task[id].pc = "resolved"
        /\ task[id].by \in {"GoogleElevation", "WeatherAPI", "OpenCage"}
        /\ task[id].trail[1].status = "failed"

\* C2: a call all of whose providers have failed ends with the result of the
\* estimator of its category, and is not rejected.
C2_EstimatorAfterAllFail ==
    \A id \in DOMAIN task :
        LET t == task[id]
        IN  (Settled(t) /\ AllProvidersFailed(t)) =>
                /\ t.pc = "resolved"
                /\ t.by = "estimator"
                /\ t.result = Estimate(t.fn, t.ring,
                                       t.trail[Len(t.trail)].input.body)

\* the provenance tags of the estimators
EstimateTags ==
    {"Estimation (ocean)", "Estimation (zone polaire)",
     "Estimation (zone subpolaire)", "Estimation (zone temperee)",
     "Estimation (zone tropicale)", "Simulation basee sur la localisation",
     "Estimation basee sur la localisation",
     "Donnees simulees basees sur la localisation"}

\* C3: every result a chain returns carries a dataSource string, which is
\* an estimate tag exactly when the estimator produced the result.
C3_ResultCarriesDataSource ==
    \A id \in DOMAIN task :
        LET t == task[id]
        IN  t.pc = "resolved" =>
                /\ "dataSource" \in DOMAIN t.result
                /\ (t.result.dataSource \in EstimateTags) <=> (t.by = "estimator")

\* C4: no call of a chain is rejected, whatever the ring and whatever the
\* providers answer.
C4_NeverRejects == \A id \in DOMAIN task : task[id].pc # "rejected"

\* C5: a call that waits for a provider can always go on: the answer is
\* handled or, when the provider never answers, a timeout counts the request
\* as failed and the chain advances.
C5_PendingCallAdvances ==
    \A id \in DOMAIN task :
        task[id].pc = "await" => ENABLED Respond(id, Inputs)

\* the source that follows a provider in its chain
NextSource(fn, provider) ==
    LET P == Providers(fn)
        k == CHOOSE j \in 1 .. Len(P) : P[j] = provider
    IN  IF k < Len(P) THEN P[k + 1] ELSE "estimator"

\* C6: no request is sent to a provider whose credential is absent, and the
\* call has then gone on to its next source (the next provider or the
\* estimator).
C6_NoRequestWithoutCredential ==
    \A id \in DOMAIN task :
        LET t == task[id]
        IN  \A i \in 1 .. Len(t.trail) :
                CredentialAbsent(t.trail[i].source) =>
                    /\ ~Requested(t.trail[i])
                    /\ i < Len(t.trail)
                    /\ t.trail[i + 1].source
                           = NextSource(t.fn, t.trail[i].source)

\* the first weather provider has no key, and the second one is requested
C6_Witness ==
    \E id \in DOMAIN task :
        /\ task[id].fn = "weather"
        /\ ~keys.openWeather
        /\ Len(task[id].trail) = 2
        /\ task[id].trail[1].status = "skipped"
        /\ task[id].trail[2].status = "pending"

----------------------------------------------------------------------------
(* Independence of the chains *)

\* the two calls ran the same function on the same ring and consumed the
\* same inputs: the same answers of the providers, the same random state
SameInputs(t, u) ==
    /\ t.fn = u.fn
    /\ t.ring = u.ring
    /\ Len(t.trail) = Len(u.trail)
    /\ \A i \in 1 .. Len(t.trail) :
           /\ t.trail[i].source = u.trail[i].source
           /\ t.trail[i].input = u.trail[i].input

----------------------------------------------------------------------------
(* What App and DataDisplay show of a drawn polygon *)

IsNull(x) == "none" \in DOMAIN x

\* weatherData, populationData and elevationData of App
AppResults == << app.weatherData, app.populationData, app.elevationData >>

PopulationNote == "Estimation basee sur la localisation geographique"

\* the call t has started in this step
StartsNow(id) == task[id].pc = "idle" /\ task'[id].pc # "idle"

\* a chain called for request r still waits for a provider
PendingFor(r) ==
    \/ \E k \in 1 .. 3 : task[AppTask(r, AppChains[k])].pc = "await"
    \/ \E o \in display.open : o.of = r

\* something computed for request r is shown
VisibleFor(r) ==
    \/ ~IsNull(app.polygonMetrics) /\ app.polygonMetrics.of = r
    \/ \E k \in 1 .. 3 : ~IsNull(AppResults[k]) /\ AppResults[k].of = r
    \/ ~IsNull(display.chartData) /\ display.chartData.of = r

\* nothing is in progress
Quiescent ==
    /\ app.open = {}
    /\ display.open = {}
    /\ ~display.effectPending

\* the provenance string a result carries in dataSource
TagOf(data) ==
    IF "dataSource" \in DOMAIN data THEN data.dataSource ELSE "none"

\* the category results on the screen for request r: category, producer
\* and provenance string
Report(r) ==
    {[fn |-> AppResults[k].fn, by |-> AppResults[k].by,
      tag |-> TagOf(AppResults[k].data)] :
         k \in {j \in 1 .. 3 :
                    ~IsNull(AppResults[j]) /\ AppResults[j].of = r}}
    \cup
    (IF ~IsNull(display.chartData) /\ display.chartData.of = r
     THEN {[fn |-> display.chartData.type, by |-> display.chartData.by,
            tag |-> display.dataSource]}
     ELSE {})

\* every provider asked for what is shown has failed
AllShownFailed ==
    /\ \A k \in 1 .. 3 : ~IsNull(AppResults[k]) /\ AppResults[k].allFailed
    /\ ~IsNull(display.chartData) /\ display.chartData.allFailed

\* C7 as stated: when all providers are unreachable, the aggregation of a
\* polygon ends without a fault with a complete report: population, land
\* use, climate, elevation and weather, each produced by an estimator and
\* tagged as estimated.
C7_CompleteEstimatedReport ==
    (Quiescent /\ app.request > 0 /\ AllShownFailed) =>
        /\ app.caught = {}
        /\ display.error = "null"
        /\ \A fn \in {"population", "landUse", "climate", "elevation",
                      "weather"} :
               \E x \in Report(app.request) :
                   /\ x.fn = fn
                   /\ x.by = "estimator"
                   /\ x.tag \in EstimateTags

\* C7 as amended: no call of handlePolygonDrawn or of fetchData ends in its
\* catch block and none stays open once its chains have settled; a result
\* shown all of whose providers had failed was produced by the estimator of
\* its category: weather, population and elevation in App, the one selected
\* category in DataDisplay; it carries an estimate tag in dataSource, the
\* population estimate carries its label in note instead.
C7_EstimatesShownWhenAllFail ==
    /\ app.caught = {}
    /\ display.error = "null"
    /\ \A o \in app.open :
           \E k \in 1 .. 3 : task[AppTask(o.of, AppChains[k])].pc = "await"
    /\ \A o \in display.open : task[DisplayTask(o.n)].pc = "await"
    /\ \A k \in 1 .. 3 :
           LET x == AppResults[k]
           IN  (~IsNull(x) /\ x.allFailed) =>
                   /\ x.fn = AppChains[k]
                   /\ x.by = "estimator"
                   /\ \/ x.of # app.request
                      \/ \E in \in AppInputs :
                             x.data = Estimate(x.fn, app.polygonCoords,
                                               in.seed)
                   /\ IF x.fn = "population"
                      THEN /\ TagOf(x.data) = "none"
                           /\ x.data.note = PopulationNote
                      ELSE TagOf(x.data) \in EstimateTags
    /\ LET c == display.chartData
       IN  (~IsNull(c) /\ c.allFailed) =>
               /\ c.by = "estimator"
               /\ c.type \in DataTypes
               /\ IF c.type = "population"
                  THEN display.dataSource = PopulationNote
                  ELSE display.dataSource \in EstimateTags

\* a polygon has been drawn, every provider has failed, and App and
\* DataDisplay show their estimates
C7_Witness ==
    /\ Quiescent
    /\ app.request > 0
    /\ AllShownFailed
    /\ ~app.isLoading
    /\ ~display.isLoading

\* C8 as stated: the four category chains of a request (population, land
\* use, climate, elevation) are started in one go: the step that starts the
\* population chain starts the other three on the same polygon.
C8_FourChainsStartTogether ==
    [][\A r \in 1 .. MaxDraws :
           StartsNow(AppTask(r, "population")) =>
               \A fn \in {"landUse", "climate", "elevation"} :
                   \E id \in DOMAIN task :
                       /\ StartsNow(id)
                       /\ task'[id].fn = fn
                       /\ task'[id].ring = task'[AppTask(r, "population")].ring
      ]_vars

\* C8 as amended: handlePolygonDrawn starts its three chains, weather,
\* population and elevation, before it waits for any of them: the step that
\* starts one of them starts all three.  Land use and climate are not among
\* them: DataDisplay starts at most one chain in a step, the one of the
\* selected data type.
C8_ThreeChainsStartTogether ==
    [][/\ \A r \in 1 .. MaxDraws :
              (\E k \in 1 .. 3 : StartsNow(AppTask(r, AppChains[k]))) =>
                  \A k \in 1 .. 3 :
                      /\ StartsNow(AppTask(r, AppChains[k]))
                      /\ task'[AppTask(r, AppChains[k])].fn = AppChains[k]
                      /\ task'[AppTask(r, AppChains[k])].ring
                             = app'.polygonCoords
       /\ \A n \in 1 .. (MaxDraws + MaxSelects) :
              StartsNow(DisplayTask(n)) =>
                  /\ task'[DisplayTask(n)].fn = display.dataType
                  /\ \A m \in 1 .. (MaxDraws + MaxSelects) :
                         StartsNow(DisplayTask(m)) => m = n
                  /\ \A r \in 1 .. MaxDraws, k \in 1 .. 3 :
                         ~StartsNow(AppTask(r, AppChains[k]))
      ]_vars

\* the three chains of a drawn polygon wait for their first providers at
\* the same time
C8_Witness ==
    \E r \in 1 .. MaxDraws :
        \A k \in 1 .. 3 :
            /\ task[AppTask(r, AppChains[k])].pc = "await"
            /\ Len(task[AppTask(r, AppChains[k])].trail) = 1

\* C9 as stated: nothing computed for a request is shown while a chain
\* called for that request still waits.
C9_NothingVisibleWhilePending ==
    \A r \in 1 .. MaxDraws : VisibleFor(r) => ~PendingFor(r)

\* C9 as amended: App shows the metrics and the weather, population and
\* elevation results of a request together, and only when the three chains
\* of its handlePolygonDrawn have all resolved; DataDisplay shows the chart
\* of a call of fetchData when the one chain of that call has resolved,
\* whatever the chains of App do.
C9_AppShowsAllThreeTogether ==
    /\ IsNull(app.polygonMetrics) =>
           \A k \in 1 .. 3 : IsNull(AppResults[k])
    /\ ~IsNull(app.polygonMetrics) =>
           \A k \in 1 .. 3 :
               /\ ~IsNull(AppResults[k])
               /\ AppResults[k].of = app.polygonMetrics.of
               /\ AppResults[k].fn = AppChains[k]
               /\ task[AppTask(app.polygonMetrics.of, AppChains[k])].pc
                      # "await"
    /\ ~IsNull(app.polygonMetrics) =>
           \A o \in app.open : o.of # app.polygonMetrics.of
    /\ ~IsNull(display.chartData) =>
           /\ task[DisplayTask(display.chartData.n)].pc # "await"
           /\ \A o \in display.open : o.n # display.chartData.n

\* App shows the results of a polygon while the chain of DataDisplay for the
\* same polygon still waits
C9_Witness ==
    /\ ~IsNull(app.polygonMetrics)
    /\ \E o \in display.open : o.of = app.polygonMetrics.of

----------------------------------------------------------------------------
(* Land use *)

\* the polygon is larger than the threshold of fetchLandUseData
IsLarge(ring) == calculatePolygonAreaInKm2(ring) > 100 * 100

\* C11: a call of fetchLandUseData on a polygon of more than 100 km2 sends
\* no request at any time and has resolved, within the call itself, with the
\* result of the land-use estimator.
C11_LargePolygonEstimatedWithoutRequest ==
    \A id \in DOMAIN task :
        LET t == task[id]
        IN  (t.fn = "landUse" /\ IsLarge(t.ring)) =>
                /\ \A i \in EntriesOf(t, "Overpass") : ~Requested(t.trail[i])
                /\ t.pc = "resolved"
                /\ t.by = "estimator"
                /\ \E seed \in Seeds :
                       t.result = estimateLandUseFromLocation(t.ring, seed)

\* fetchLandUseData has been called on the square of 343 km2
C11_Witness ==
    \E id \in DOMAIN task :
        /\ task[id].fn = "landUse"
        /\ task[id].ring = LargeLandRing
        /\ task[id].pc = "resolved"

\* the call has returned a land-use result attributed to OpenStreetMap
FromOpenStreetMap(t) ==
    /\ t.pc = "resolved"
    /\ t.fn = "landUse"
    /\ TagOf(t.result) = "OpenStreetMap"

\* urban + agriculture + forest + water of a land-use result
FourShares(r) == r.urban + r.agriculture + r.forest + r.water

\* the elements of the answer the call has returned from
AnswerOf(t) == t.trail[Len(t.trail)].input.body

\* C12: the five percentages of every land-use result attributed to
\* OpenStreetMap sum to exactly 100.
C12_ProviderSharesSumTo100 ==
    \A id \in DOMAIN task :
        FromOpenStreetMap(task[id]) =>
            FourShares(task[id].result) + task[id].result.other = 100

\* C13 as stated: other is 100 minus the four rounded percentages, a
\* negative remainder is replaced by 0 and the four are left as they are;
\* in that case the five percentages sum to less than 100.
C13_ClampedSumBelow100 ==
    \A id \in DOMAIN task :
        LET r == task[id].result
        IN  FromOpenStreetMap(task[id]) =>
                /\ r.other = Max(0, 100 - FourShares(r))
                /\ (100 - FourShares(r) < 0) =>
                       FourShares(r) + r.other < 100

\* C13 as amended: each of the four percentages is the rounded share of its
\* kind among the matched elements, other is 100 minus their sum, and a
\* negative remainder is replaced by 0 with the four left as they are; in
\* that case the five percentages sum to more than 100, and in every other
\* case to exactly 100: the sum is never below 100.
C13_ClampedSumAbove100 ==
    \A id \in DOMAIN task :
        LET t == task[id]
            r == t.result
            n(tag, value) == CountTag(AnswerOf(t), tag, value)
            total == n("landuse", "residential") + n("landuse", "farmland")
                         + n("natural", "wood") + n("natural", "water")
            share(k) == (200 * k + total) \div (2 * total)
        IN  FromOpenStreetMap(t) =>
                /\ total > 0
                /\ r.urban = share(n("landuse", "residential"))
                /\ r.agriculture = share(n("landuse", "farmland"))
                /\ r.forest = share(n("natural", "wood"))
                /\ r.water = share(n("natural", "water"))
                /\ r.other = Max(0, 100 - FourShares(r))
                /\ IF FourShares(r) > 100
                   THEN r.other = 0 /\ FourShares(r) + r.other > 100
                   ELSE FourShares(r) + r.other = 100

\* a result attributed to OpenStreetMap whose four rounded percentages
\* exceed 100
C13_Witness ==
    \E id \in DOMAIN task :
        /\ FromOpenStreetMap(task[id])
        /\ FourShares(task[id].result) > 100

----------------------------------------------------------------------------
(* Answers that are no data *)

\* the answer of the entry succeeded but holds nothing: no list or an empty
\* one, or elements none of which is of the four kinds
EmptyAnswer(e) ==
    \/ e.input.kind = "empty"
    \/ e.source = "Overpass" /\ e.input.kind = "ok" /\ NoMatch(e.input.body)

\* C14: a provider whose answer holds nothing counts as failed and is not
\* the source of the result: the call has gone on to the next source of its
\* chain, and when that is the estimator, what the call returns is the
\* estimate.
C14_EmptyAnswerAdvances ==
    \A id \in DOMAIN task :
        LET t == task[id]
        IN  \A i \in 1 .. Len(t.trail) :
                (IsProvider(t.fn, t.trail[i].source) /\ EmptyAnswer(t.trail[i]))
                    => /\ t.trail[i].status = "failed"
                       /\ t.by # t.trail[i].source
                       /\ i < Len(t.trail)
                       /\ t.trail[i + 1].source
                              = NextSource(t.fn, t.trail[i].source)
                       /\ (NextSource(t.fn, t.trail[i].source) = "estimator"
                               /\ t.pc = "resolved") =>
                              /\ t.by = "estimator"
                              /\ t.result =
                                     Estimate(t.fn, t.ring,
                                              t.trail[i + 1].input.body)

\* the climate portal has answered with an empty list and the call has
\* returned the estimate
C14_Witness ==
    \E id \in DOMAIN task :
        /\ task[id].fn = "climate"
        /\ task[id].pc = "resolved"
        /\ task[id].by = "estimator"
        /\ task[id].trail[1].input.kind = "empty"

\* C15: a provider whose answer has not the expected shape counts as failed
\* and is not the source of the result.
C15_MalformedAnswerAdvances ==
    \A id \in DOMAIN task :
        LET t == task[id]
        IN  \A i \in 1 .. Len(t.trail) :
                t.trail[i].input.kind = "malformed" =>
                    /\ t.trail[i].status = "failed"
                    /\ t.by # t.trail[i].source

----------------------------------------------------------------------------
(* The population chain *)

\* C16: when WorldPop has failed for a polygon and a geocoding key is
\* configured, the call requests the reverse geocoding before any estimate.
\* An answer with a country code makes the call return the geocoding
\* result: the density is the table entry of the code whatever its case
\* (117.6 for FR), 50 for a code the table does not hold, and the population
\* is density times area in km2, rounded.  Any other answer makes the call
\* return the estimate.
C16_GeocodingBeforeEstimator ==
    \A id \in DOMAIN task :
        LET t == task[id]
            e == t.trail[2]
            code == e.input.body.country_code
        IN  (/\ t.fn = "population"
             /\ t.ring.present
             /\ keys.geocoding
             /\ Len(t.trail) >= 1
             /\ t.trail[1].status = "failed") =>
                /\ Len(t.trail) >= 2
                /\ e.source = "OpenCage"
                /\ Requested(e)
                /\ e.status # "pending" =>
                       IF e.input.kind = "ok" /\ code # "none"
                       THEN /\ t.pc = "resolved"
                            /\ t.by = "OpenCage"
                            /\ Len(t.trail) = 2
                            /\ code = "FR" => t.result.density = 1176
                            /\ code = "zz" => t.result.density = 500
                            /\ t.result.population =
                                   (2 * t.result.density
                                          * calculatePolygonAreaInKm2(t.ring)
                                      + 1000) \div 2000
                       ELSE /\ t.pc = "resolved"
                            /\ t.by = "estimator"
                            /\ Len(t.trail) = 3
                            /\ t.result =
                                   estimatePopulationFromLocation(
                                       t.ring, t.trail[3].input.body)

\* WorldPop has failed and the geocoding has answered FR for the triangle
\* in central France
C16_Witness ==
    \E id \in DOMAIN task :
        /\ task[id].fn = "population"
        /\ task[id].ring = SmallLandRing
        /\ task[id].by = "OpenCage"
        /\ task[id].trail[1].status = "failed"
        /\ task[id].trail[2].input.body.country_code = "FR"

----------------------------------------------------------------------------
(* The geometry functions *)

\* a call of the function has returned or thrown for every argument
Called(op) == calc.op = op /\ Len(calc.outs) = Len(calc.args)

\* the six continental boxes: south, north, west, east, in degrees
LandBoxes ==
    {<< 35, 70, -10, 40 >>, << 15, 70, -170, -50 >>, << -60, 15, -80, -35 >>,
     << -40, 35, -20, 55 >>, << 0, 75, 40, 180 >>, << -45, -10, 110, 155 >>}

\* the point lies strictly inside one of the boxes
InLandBox(lat, lng) ==
    \E b \in LandBoxes :
        /\ lat > 100 * b[1] /\ lat < 100 * b[2]
        /\ lng > 100 * b[3] /\ lng < 100 * b[4]

\* C17 as stated: isLikelyOceanLocation returns false exactly for the points
\* inside one of the six continental boxes or in the polar band, latitude
\* above 60 or below -60, and true for every other point.
C17_LandIsBoxesOrPolarBand ==
    Called("isLikelyOceanLocation") =>
        LET lat == calc.args[1][1]
            lng == calc.args[1][2]
        IN  /\ ~calc.outs[1].threw
            /\ (calc.outs[1].value = FALSE)
                   <=> (InLandBox(lat, lng) \/ lat > 6000 \/ lat < -6000)

\* C17 as amended: isLikelyOceanLocation returns false exactly for the
\* points strictly inside one of the six continental boxes or south of
\* latitude -60, and true for every other point; north of the boxes,
\* above latitude 75, or 70 outside Asia, every point is ocean.
C17_LandIsBoxesOrSouthOf60 ==
    Called("isLikelyOceanLocation") =>
        LET lat == calc.args[1][1]
            lng == calc.args[1][2]
        IN  /\ ~calc.outs[1].threw
            /\ (calc.outs[1].value = FALSE)
                   <=> (InLandBox(lat, lng) \/ lat < -6000)
            /\ lat > 7500 => calc.outs[1].value = TRUE

\* the north pole has been classified, as ocean
C17_Witness ==
    /\ Called("isLikelyOceanLocation")
    /\ calc.args[1][1] = 9000
    /\ calc.outs[1].value = TRUE

\* C18: isLikelyOceanLocation returns true for latitude 0, longitude -30
\* and false for latitude 46, longitude 2.
C18_AtlanticOceanFranceLand ==
    Called("isLikelyOceanLocation") =>
        /\ calc.args[1] = << 0, -3000 >> => calc.outs[1] = Value(TRUE)
        /\ calc.args[1] = << 4600, 200 >> => calc.outs[1] = Value(FALSE)

\* the point in central France has been classified
C18_Witness ==
    /\ Called("isLikelyOceanLocation")
    /\ calc.args[1] = << 4600, 200 >>

\* the centre is the null or the zero sentinel
IsSentinelCenter(v) ==
    IF v = Null THEN TRUE
    ELSE /\ v.lat.den > 0 /\ v.lat.num = 0
         /\ v.lng.den > 0 /\ v.lng.num = 0

\* C19: on a ring of fewer than 3 points, a missing or an empty ring
\* included, calculatePolygonArea returns 0 and coordsToGeoJSON returns
\* null, and on a ring of fewer than 2 points calculatePolygonPerimeter
\* returns 0; on such a ring no geometry operation throws, and on a ring
\* without any point the bounding box and the centre are sentinels too.
C19_ShortRingsYieldSentinels ==
    (calc.op \in GeoOps /\ Len(calc.outs) >= 1) =>
        LET ring == calc.args[1]
            out == calc.outs[1]
            points == IF ring.present THEN Len0(ring) ELSE 0
        IN  /\ points < 3 => ~out.threw
            /\ (calc.op = "calculatePolygonArea" /\ points < 3) =>
                   out = Value(0)
            /\ (calc.op = "coordsToGeoJSON" /\ points < 3) =>
                   out = Value(Null)
            /\ (calc.op = "calculatePolygonPerimeter" /\ points < 2) =>
                   out = Value(0)
            /\ (calc.op = "calculateBoundingBox" /\ points = 0) =>
                   out = Value([north |-> 0, south |-> 0,
                                east |-> 0, west |-> 0])
            /\ (calc.op = "center" /\ points = 0) =>
                   ~out.threw /\ IsSentinelCenter(out.value)

\* v is a cyclic rotation of the ring r, or its reversal
IsRotationOrReversal(v, r) ==
    /\ r.present /\ v.present
    /\ Len0(r) >= 1
    /\ \/ \E k \in 1 .. Len0(r) : v = Rotation(r, k)
       \/ v = Reversal(r)

\* the sum of the magnitudes of the products the area formula adds up
EdgeMagnitude(ring) ==
    LET n == Len0(ring)
        m[i \in 0 .. n] ==
            IF i = 0 THEN 0
            ELSE m[i - 1]
                   + Abs(ring.pts[i][2] * SinE5(ring.pts[(i % n) + 1][1]))
                   + Abs(ring.pts[(i % n) + 1][2] * SinE5(ring.pts[i][1]))
    IN  m[n]

\* C20 as stated: calculatePolygonArea and calculatePolygonPerimeter return
\* the same value for a ring, for each of its cyclic rotations and for its
\* reversal.
C20_SameValueForRotationsAndReversal ==
    (/\ Called("calculatePolygonArea") \/ Called("calculatePolygonPerimeter")
     /\ IsRotationOrReversal(calc.args[2], calc.args[1])) =>
        calc.outs[1] = calc.outs[2]

\* C20 as amended: the two functions return, for a ring, for each of its
\* cyclic rotations and for its reversal, values that agree up to the
\* rounding of the sum, whose terms are added in another order: the
\* perimeters differ by at most one unit in the last place per vertex, the
\* areas by at most two units in the last place of the summed products per
\* vertex, scaled as the sum is; neither call throws.
C20_SameValueUpToRounding ==
    (/\ Called("calculatePolygonArea") \/ Called("calculatePolygonPerimeter")
     /\ IsRotationOrReversal(calc.args[2], calc.args[1])) =>
        LET n == Len0(calc.args[1])
            a == calc.outs[1].value
            b == calc.outs[2].value
        IN  /\ ~calc.outs[1].threw /\ ~calc.outs[2].threw
            /\ a >= 0 /\ b >= 0
            /\ IF calc.op = "calculatePolygonPerimeter"
               THEN Abs(a - b) <= n * Ulp(Max(a, b))
               ELSE Abs(a - b)
                        <= (2 * n * Ulp(EdgeMagnitude(calc.args[1])) * AreaScale)
                               \div 1000 + 1

\* the perimeter of a polygon and of one of its rotations or its reversal
\* have been computed and differ in the last place
C20_Witness ==
    /\ Called("calculatePolygonPerimeter")
    /\ IsRotationOrReversal(calc.args[2], calc.args[1])
    /\ Len0(calc.args[1]) >= 3
    /\ calc.outs[1] # calc.outs[2]

\* C21: for a ring of at least 3 points coordsToGeoJSON returns a Feature
\* whose Polygon has one ring; it lists every input vertex in input order as
\* (longitude, latitude) and ends with its first point: it has as many points
\* as the input when the input's first and last points coincide, and one
\* more, a copy of the first, otherwise.
C21_FeatureRingIsClosedLngLat ==
    \A c \in 1 .. Len(calc.outs) :
        (/\ calc.op = "coordsToGeoJSON"
         /\ calc.args[c].present
         /\ Len0(calc.args[c]) >= 3) =>
            LET pts == calc.args[c].pts
                n == Len(pts)
                out == calc.outs[c]
                isClosed == pts[1] = pts[n]
            IN  /\ ~out.threw
                /\ out.value # Null
                /\ out.value.type = "Feature"
                /\ out.value.geometry.type = "Polygon"
                /\ Len(out.value.geometry.coordinates) = 1
                /\ LET line == out.value.geometry.coordinates[1]
                   IN  /\ Len(line) = IF isClosed THEN n ELSE n + 1
                       /\ \A i \in 1 .. n : line[i] = << pts[i][2], pts[i][1] >>
                       /\ line[Len(line)] = line[1]

\* a closed ring and an open ring have both been converted
C21_Witness ==
    /\ Called("coordsToGeoJSON")
    /\ calc.args = << ClosedLandRing, SmallLandRing >>
    /\ Len(calc.outs[1].value.geometry.coordinates[1]) = 4
    /\ Len(calc.outs[2].value.geometry.coordinates[1]) = 4

\* C22: calculateBoundingBox returns the box of four zeros for an empty or a
\* missing ring; for any other ring north and south are the greatest and
\* the least latitude of its points, east and west the greatest and the
\* least longitude, so that north >= south, east >= west and every point
\* lies in the box.
C22_BoxIsMinMaxOfRing ==
    \A c \in 1 .. Len(calc.outs) :
        calc.op = "calculateBoundingBox" =>
            LET ring == calc.args[c]
                out == calc.outs[c]
                box == out.value
            IN  /\ ~out.threw
                /\ IF ~ring.present \/ Len0(ring) = 0
                   THEN box = [north |-> 0, south |-> 0, east |-> 0, west |-> 0]
                   ELSE LET I == 1 .. Len0(ring)
                        IN  /\ \A i \in I : /\ box.south <= ring.pts[i][1]
                                            /\ ring.pts[i][1] <= box.north
                                            /\ box.west <= ring.pts[i][2]
                                            /\ ring.pts[i][2] <= box.east
                            /\ \E i \in I : ring.pts[i][1] = box.north
                            /\ \E i \in I : ring.pts[i][1] = box.south
                            /\ \E i \in I : ring.pts[i][2] = box.east
                            /\ \E i \in I : ring.pts[i][2] = box.west
                            /\ box.north >= box.south
                            /\ box.east >= box.west

\* the box of the square in central France and the box of an empty ring have
\* been computed
C22_Witness ==
    /\ Called("calculateBoundingBox")
    /\ calc.args = << LargeLandRing, EmptyRing >>
    /\ calc.outs[1].value.north > calc.outs[1].value.south
    /\ calc.outs[1].value.east > calc.outs[1].value.west
    /\ calc.outs[2].value.north = 0

----------------------------------------------------------------------------
(* The estimators *)

\* the centre an estimator computes as the mean of the points is classified
\* as ocean
MeanIsOcean(ring) ==
    isLikelyOceanLocation(centerOf(ring, 1), centerOf(ring, 2))

\* C23: whenever the centre the land-use estimator computes is classified as
\* ocean, the estimator returns water 98, urban 0, agriculture 0, forest 0
\* and other 2, whatever the latitude of the centre and whatever
\* Math.random() draws.
C23_OceanCentreGivesFixedShares ==
    \A c \in 1 .. Len(calc.outs) :
        (/\ calc.op = "estimateLandUseFromLocation"
         /\ ~calc.outs[c].threw
         /\ MeanIsOcean(calc.args[c].ring)) =>
            LET v == calc.outs[c].value
            IN  /\ v.water = 98
                /\ v.urban = 0
                /\ v.agriculture = 0
                /\ v.forest = 0
                /\ v.other = 2

\* the estimator has answered for a triangle in the Arctic Ocean, north of
\* 60 degrees, with the greatest draws of Math.random()
C23_Witness ==
    /\ Called("estimateLandUseFromLocation")
    /\ calc.args[1].ring = TriangleAt(7500, 0)
    /\ calc.args[1].seed = RandDen * RandDen - 1
    /\ ~calc.outs[1].threw
    /\ calc.outs[1].value.water = 98

\* the mean of the points of the ring lies strictly inside the box
MeanInBox(ring, b) ==
    /\ Gt(centerOf(ring, 1), b[1]) /\ Lt(centerOf(ring, 1), b[2])
    /\ Gt(centerOf(ring, 2), b[3]) /\ Lt(centerOf(ring, 2), b[4])

\* C24 as stated: the elevation estimator returns 0 when the centre is
\* classified as ocean; otherwise a value from 1000 to 5000 m when the centre
\* lies in one of the four mountain boxes and a value from 50 to 250 m when
\* it lies in none, for every draw of Math.random().
C24_MountainsBetween1000And5000 ==
    \A c \in 1 .. Len(calc.outs) :
        (calc.op = "estimateElevationFromLocation" /\ ~calc.outs[c].threw) =>
            LET ring == calc.args[c].ring
                e == calc.outs[c].value.centerElevation
            IN  IF MeanIsOcean(ring) THEN e = 0
                ELSE IF \E b \in MountainBoxes : MeanInBox(ring, b)
                THEN 1000 <= e /\ e <= 5000
                ELSE 50 <= e /\ e <= 250

\* C24 as amended: the elevation estimator returns 0 when the centre is
\* classified as ocean; otherwise, when the centre lies in a mountain box, a
\* value in the band of that box (Alps and Rocky Mountains 1000 to 3000 m,
\* Andes 1500 to 4500 m, Himalaya 2000 to 6000 m, so 1000 to 6000 m in all),
\* and a value from 50 to 250 m when it lies in no box.
C24_MountainsBetween1000And6000 ==
    \A c \in 1 .. Len(calc.outs) :
        (calc.op = "estimateElevationFromLocation" /\ ~calc.outs[c].threw) =>
            LET ring == calc.args[c].ring
                e == calc.outs[c].value.centerElevation
            IN  IF MeanIsOcean(ring) THEN e = 0
                ELSE IF \E b \in MountainBoxes : MeanInBox(ring, b)
                THEN /\ \A b \in MountainBoxes :
                            MeanInBox(ring, b) => b[5] <= e /\ e <= b[6]
                     /\ 1000 <= e /\ e <= 6000
                ELSE 50 <= e /\ e <= 250

\* the estimator has answered with more than 5000 m for the triangle in the
\* Himalaya
C24_Witness ==
    /\ Called("estimateElevationFromLocation")
    /\ calc.args[1].ring = TriangleAt(3000, 8000)
    /\ ~calc.outs[1].threw
    /\ calc.outs[1].value.centerElevation > 5000

\* the densities, in inhabitants per km2, the population estimator reports
\* for a centre on land at latitude lat: polar, subpolar, temperate and
\* tropical band
DensityBand(lat) ==
    IF AbsGt(lat, 60) THEN 0 .. 2
    ELSE IF AbsGt(lat, 45) THEN 5 .. 45
    ELSE IF AbsGt(lat, 23) THEN 50 .. 250
    ELSE 30 .. 180

\* C25: the population estimator is keyed by the mean of the latitudes and
\* of the longitudes of the ring: when that point is classified as ocean the
\* estimator returns density 0 and population 0, and otherwise the density
\* comes from the latitude band of that point.
C25_PopulationKeyedByMean ==
    \A c \in 1 .. Len(calc.outs) :
        (/\ calc.op = "estimatePopulationFromLocation"
         /\ calc.args[c].ring.present
         /\ Len0(calc.args[c].ring) >= 1) =>
            LET ring == calc.args[c].ring
                v == calc.outs[c].value
            IN  IF MeanIsOcean(ring)
                THEN v.density = 0 /\ v.population = 0
                ELSE v.density \in DensityBand(centerOf(ring, 1))

\* C26 as stated: in every result of the population estimator, population
\* is round(area * density) for the area in km2 and the density of that
\* result.
C26_PopulationIsAreaTimesReportedDensity ==
    \A c \in 1 .. Len(calc.outs) :
        calc.op = "estimatePopulationFromLocation" =>
            LET v == calc.outs[c].value
            IN  v.population = MathRound(v.area * v.density, 100)

\* C26 as amended: population is round(area * d) for the density d the
\* estimator drew and density is round(d), so that population and
\* area * density of one result differ by at most area / 2 + 1 / 2; over the
\* ocean both are 0.
C26_PopulationWithinRoundingOfDensity ==
    \A c \in 1 .. Len(calc.outs) :
        calc.op = "estimatePopulationFromLocation" =>
            LET v == calc.outs[c].value
            IN  /\ ~calc.outs[c].threw
                /\ v.population >= 0 /\ v.density >= 0
                /\ Abs(200 * v.population - 2 * v.area * v.density)
                       <= v.area + 100
                /\ v.density = 0 => 2 * 100 * v.population <= v.area + 100

\* the estimator has answered for the triangle in Scandinavia with a density
\* that rounds to 0 and a population that is not 0
C26_Witness ==
    /\ Called("estimatePopulationFromLocation")
    /\ calc.args[1].ring = TriangleAt(6500, 2000)
    /\ calc.outs[1].value.density = 0
    /\ calc.outs[1].value.population > 0

----------------------------------------------------------------------------
(* The shape of the results *)

\* C27: every result fetchLandUseData resolves with, from OpenStreetMap or
\* from the estimator, has five integer percentages urban, agriculture,
\* forest, water and other that sum to 100.
C27_EveryLandUseResultSumsTo100 ==
    \A id \in DOMAIN task :
        LET t == task[id]
        IN  (t.fn = "landUse" /\ t.pc = "resolved") =>
                /\ \A share \in {t.result.urban, t.result.agriculture,
                                 t.result.forest, t.result.water,
                                 t.result.other} : share \in 0 .. 100
                /\ FourShares(t.result) + t.result.other = 100

\* C28: every result fetchClimateData resolves with, from the provider or
\* from the estimator, holds the 12 month labels in order, 12 temperatures
\* and 12 precipitation values, and every precipitation value is a number
\* that is not negative.
C28_TwelveMonthsOfClimate ==
    \A id \in DOMAIN task :
        LET t == task[id]
        IN  (t.fn = "climate" /\ t.pc = "resolved") =>
                /\ t.result.months = months
                /\ Len(t.result.temperatures) = 12
                /\ Len(t.result.precipitation) = 12
                /\ \A i \in 1 .. 12 : t.result.precipitation[i] >= 0

\* the area of the ring in the plane, in m2, for points in thousandths of a
\* degree: half the sum of x1 * y2 - x2 * y1 over the edges, a thousandth of
\* a degree being 111.195 m (12364 m2 for a square of that side)
PlanarAreaM2(ring) ==
    LET n == Len0(ring)
        twice[i \in 0 .. n] ==
            IF i = 0 THEN 0
            ELSE LET j == (i % n) + 1
                 IN  twice[i - 1] + ring.pts[i][2] * ring.pts[j][1]
                                  - ring.pts[j][2] * ring.pts[i][1]
    IN  (Abs(twice[n]) * 12364) \div 2

\* C29: for a square near the equator whose corners are about 1 km apart,
\* calculatePolygonArea differs from the area of the square in the plane by
\* less than 1 % of that area.
C29_SmallSquareWithinOnePercent ==
    \A c \in 1 .. Len(calc.outs) :
        calc.op = "calculatePolygonAreaM2" =>
            LET planar == PlanarAreaM2(calc.args[c])
                area == calc.outs[c].value
            IN  /\ ~calc.outs[c].threw
                /\ planar > 0
                /\ 100 * Abs(area - planar) < planar

\* the area of the square at the equator on the meridian of 10 degrees has
\* been computed and is about one km2
C29_Witness ==
    /\ Called("calculatePolygonAreaM2")
    /\ calc.args[1] = SquareAt(0, 10000, 9)
    /\ calc.outs[1].value > 990000
    /\ calc.outs[1].value < 1010000

----------------------------------------------------------------------------
(* Polygons drawn one upon another *)

\* C30: whenever no call of handlePolygonDrawn is waiting and none has
\* failed, the metrics, the weather, the population and the elevation App
\* holds are those of the polygon drawn last: a chain of an earlier polygon
\* that settles late does not overwrite them.
C30_LastPolygonShown ==
    (app.request >= 1 /\ app.open = {} /\ app.caught = {}) =>
        /\ app.polygonMetrics.of = app.request
        /\ app.weatherData.of = app.request
        /\ app.populationData.of = app.request
        /\ app.elevationData.of = app.request

----------------------------------------------------------------------------
(* The draw control *)

\* C31: every polygon drawn calls onPolygonDrawn once and adds its layer
\* once, however often the effect of DrawControl has run before: the
\* cleanup of the effect leaves no earlier listener of CREATED on the map.
C31_OneHandlerPerDraw ==
    /\ Len(map.handlers) <= 1
    /\ \A d \in 1 .. Len(map.created) : Len(map.created[d]) = 1

----------------------------------------------------------------------------
(* DataDisplay under a changing polygon *)

\* C32: once no call of fetchData is in flight and a chart is shown, the chart
\* is the one of the data type selected now for the polygon given now
C32_ChartOfCurrentSelection ==
    (/\ display.open = {}
     /\ ~display.effectPending
     /\ display.error = "null"
     /\ display.chartData # NoResult)
        => /\ display.chartData.type = display.dataType
           /\ display.chartData.of = app.request

----------------------------------------------------------------------------
(* The loading flag of App *)

\* C33: isLoading is true whenever a call of handlePolygonDrawn still waits
\* for its Promise.all
C33_LoadingWhileAnyOpen == app.open # {} => app.isLoading

----------------------------------------------------------------------------
(* The outcome of one call of handlePolygonDrawn *)

\* the calls of handlePolygonDrawn that have run to their end
Ended(a) == (1 .. a.request) \ {o.of : o \in a.open}

FourResults(a) ==
    << a.polygonMetrics, a.weatherData, a.populationData, a.elevationData >>

\* C34: a call that ends in the catch block leaves isLoading false and the
\* four results as they were, with polygonCoords the value it was given; a
\* call that ends without an exception replaces the four results by its own;
\* no other step changes any of the four
C34_StepOfHandler ==
    LET ended == Ended(app') \ Ended(app)
        failed == ended \cap app'.caught
    IN  /\ \A r \in failed :
               /\ ~app'.isLoading
               /\ FourResults(app') = FourResults(app)
               /\ r = app'.request => app'.polygonCoords = MissingRing
        /\ \A r \in ended \ failed :
               \A k \in 1 .. 4 : FourResults(app')[k].of = r
        /\ ended \ failed = {} => FourResults(app') = FourResults(app)

C34_FailureKeepsSuccessReplaces == [][C34_StepOfHandler]_vars

\* a call has failed after another one had published its results
C34_Witness ==
    /\ app.caught # {}
    /\ app.polygonMetrics # NoResult
    /\ app.polygonCoords = MissingRing
    /\ ~app.isLoading

----------------------------------------------------------------------------
(* The geometry functions and their argument *)

\* C35: the linear ring of every Feature coordsToGeoJSON returns has at least
\* four positions
C35_LinearRingHasFourPositions ==
    \A c \in 1 .. Len(calc.outs) :
        (calc.op = "coordsToGeoJSON" /\ calc.outs[c].value # Null) =>
            Len(calc.outs[c].value.geometry.coordinates[1]) >= 4

----------------------------------------------------------------------------
(* The mountain boxes and the land boxes *)

\* the point, in hundredths of a degree, lies strictly inside a mountain box
InMountainBox(p) ==
    \E b \in MountainBoxes :
        /\ p[1] > 100 * b[1] /\ p[1] < 100 * b[2]
        /\ p[2] > 100 * b[3] /\ p[2] < 100 * b[4]

\* C37: isLikelyOceanLocation returns false for every point inside one of
\* the four mountain boxes of the elevation estimator
C37_MountainsAreLand ==
    \A c \in 1 .. Len(calc.outs) :
        (calc.op = "isLikelyOceanLocation" /\ InMountainBox(calc.args[c])) =>
            calc.outs[c] = Value(FALSE)

\* the north-east corner of the Himalaya box has been classified
C37_Witness ==
    /\ Called("isLikelyOceanLocation")
    /\ calc.args[1] = << 3599, 9499 >>
    /\ calc.outs[1] = Value(FALSE)

----------------------------------------------------------------------------
(* The range of the percentages *)

\* C38: in every result fetchLandUseData resolves with, from OpenStreetMap or
\* from the estimator, each of the five percentages is an integer from 0 to
\* 100
C38_SharesBetween0And100 ==
    \A id \in DOMAIN task :
        LET t == task[id]
        IN  (t.fn = "landUse" /\ t.pc = "resolved") =>
                \A share \in {t.result.urban, t.result.agriculture,
                               t.result.forest, t.result.water,
                               t.result.other} : share \in 0 .. 100

\* a result from OpenStreetMap for the triangle in Scandinavia, whose matched
\* elements are all of one kind
C38_Witness ==
    /\ FromOpenStreetMap(task["a"])
    /\ task["a"].ring = TriangleAt(6500, 2000)
    /\ task["a"].result.forest = 100
    /\ task["a"].result.other = 0

----------------------------------------------------------------------------
(* The age groups *)

\* C39: the six counts of generateAgeDistribution sum to the total
\* population it was given
C39_AgeGroupsSumToTotal ==
    Called("generateAgeDistribution") =>
        LET counts == calc.outs[1].value
        IN  counts[1] + counts[2] + counts[3] + counts[4] + counts[5]
                + counts[6] = calc.args[1].totalPopulation

====
